---- MODULE Spec2Model ----
(***************************************************************************)
(* Nanako (src/html/nanako.js, version 0.3.1): the tree-walking evaluator  *)
(* of the AST node classes, the NanakoRuntime and the NanakoArray heap.    *)
(*                                                                         *)
(* The host call stack of the JavaScript interpreter is the variable kont  *)
(* (a stack of frames, head = innermost), the values returned by finished  *)
(* evaluate() calls wait in vals, the env objects are envs (an env is      *)
(* named by its position), the NanakoArray objects are heap (an array is   *)
(* named by its position, so that two names can share one array).          *)
(* A JavaScript throw is one step that lands in the nearest catch clause   *)
(* that handles the exception (HandlerIndex).                              *)
(***************************************************************************)
EXTENDS Integers, Sequences, FiniteSets, TLC

\* ------------------------------------------------------------------ bounds
MaxCount == 2        \* largest loop count / argument drawn for the programs
TickMs == 600        \* how far one observed advance of Date.now() goes
MaxBudget == 1       \* largest timeout (seconds) handed to exec

\* --------------------------------------------------------------- constants
MsPerSec == 1000     \* checkExecution: this.timeout * 1000

\* ------------------------------------------------------------------ values
\* number, null, NanakoArray (by reference), FunctionNode (evaluates to itself)
IntV(n) == [k |-> "int", n |-> n]
NullV == [k |-> "null"]
ArrV(r) == [k |-> "arr", r |-> r]
FnV(params, body) == [k |-> "fn", params |-> params, body |-> body]

IsNumber(v) == v.k = "int"
IsNanakoArray(v) == v.k = "arr"
IsFunction(v) == v.k = "fn"

\* ------------------------------------------------------- AST constructors
NumberNode(n) == [t |-> "Number", n |-> n]
NullNode == [t |-> "Null"]
MinusNode(e) == [t |-> "Minus", e |-> e]
LenNode(e) == [t |-> "Len", e |-> e]
ArrayNode(elems) == [t |-> "Array", elems |-> elems]
FunctionNode(params, body) == [t |-> "Function", params |-> params, body |-> body]
FuncCallNode(name, args) == [t |-> "FuncCall", name |-> name, args |-> args]
VariableNode(name, indices) == [t |-> "Variable", name |-> name, idx |-> indices]
Var(name) == VariableNode(name, <<>>)
\* value names the NanakoArray the constructor makes of content (char codes)
StringNode(value, content) == [t |-> "String", value |-> value, content |-> content]

AssignmentNode(v, e) == [t |-> "Assignment", var |-> v, e |-> e]
IncrementNode(v) == [t |-> "Increment", var |-> v]
DecrementNode(v) == [t |-> "Decrement", var |-> v]
AppendNode(v, e) == [t |-> "Append", var |-> v, e |-> e]
IfNode(l, op, r, thenB, hasElse, elseB) ==
    [t |-> "If", l |-> l, cmp |-> op, r |-> r, thenB |-> thenB,
     hasElse |-> hasElse, elseB |-> elseB]
LoopNode(count, body) == [t |-> "Loop", count |-> count, body |-> body]
BreakNode == [t |-> "Break"]
ReturnNode(e) == [t |-> "Return", e |-> e]
ExpressionStatementNode(e) == [t |-> "ExpressionStatement", e |-> e]
TestNode(e, answer) == [t |-> "Test", e |-> e, answer |-> answer]

\* -------------------------------------------------------------- exceptions
NoException == [cls |-> "none"]
NanakoError(msg) == [cls |-> "NanakoError", msg |-> msg]
BreakBreakException == [cls |-> "BreakBreakException"]
ReturnBreakException(v) == [cls |-> "ReturnBreakException", value |-> v]
\* an exception of the host (TypeError, ReferenceError), not a NanakoError
HostError(name) == [cls |-> name]
\* details, line, col and pos are fields the constructor of NanakoError sets
\* from the errorDetails() every throw site passes; no other exception has them
hasDetails(exc) == exc.cls = "NanakoError"

\* ----------------------------------------------------------------- runtime
NanakoRuntime ==
    [incrementCount |-> 0, decrementCount |-> 0, compareCount |-> 0,
     callFrames |-> <<>>, shouldStop |-> FALSE, timeout |-> 0, startTime |-> 0]

pushCallFrame(r, funcName, args) ==
    [r EXCEPT !.callFrames = Append(@, [funcName |-> funcName, args |-> args])]

popCallFrame(r) ==
    [r EXCEPT !.callFrames = IF Len(@) = 0 THEN @ ELSE SubSeq(@, 1, Len(@) - 1)]

start(r, timeout, t) ==
    [r EXCEPT !.shouldStop = FALSE, !.timeout = timeout, !.startTime = t]

\* checkExecution without the timeout test
checkExecutionNoTimeout(r, t) ==
    IF r.shouldStop THEN "stop" ELSE "ok"

\* checkExecution without the test of the stop flag
checkExecutionNoStop(r, t) ==
    IF r.timeout > 0 /\ (t - r.startTime) > r.timeout * MsPerSec THEN "timeout"
    ELSE "ok"

\* "stop" / "timeout": the NanakoError checkExecution throws; "ok": it returns
checkExecution(r, t) ==
    IF r.shouldStop THEN "stop"
    ELSE IF r.timeout > 0 /\ (t - r.startTime) > r.timeout * MsPerSec THEN "timeout"
    ELSE "ok"

checkExecutionError(c) ==
    IF c = "stop" THEN NanakoError("ManuallyStopped") ELSE NanakoError("Timeout")

\* --------------------------------------------------------------- the state
VARIABLES
    status,   \* "new" (constructed), "running", "done" (exec returned), "failed" (exec threw)
    raised,   \* the exception that left Program.evaluate, NoException otherwise
    prog,     \* the statements of the ProgramNode handed to evaluate
    kont,     \* the pending evaluate() activations, innermost first
    vals,     \* the values returned by finished evaluate() calls, latest first
    envs,     \* the env objects; envs[1] is the top-level env
    heap,     \* the NanakoArray objects: [elements, isStringView]
    rt,       \* the NanakoRuntime
    now,      \* Date.now()
    out,      \* what runtime.print was given, in order
    first,    \* what an earlier evaluate() of the same ProgramNode ended with
    emitted,  \* what the latest program.emit(lang, indent) returned, [lang |-> "none"] before
    code      \* the text handed to exec, <<>> when exec was handed the parsed program

vars == <<status, raised, prog, kont, vals, envs, heap, rt, now, out, first, emitted, code>>

top == Head(kont)
below == Tail(kont)

DropN(s, n) == SubSeq(s, n + 1, Len(s))
\* the first n values of vals were pushed last-first: put them back in order
TakeArgs(s, n) == [i \in 1..n |-> s[n + 1 - i]]

EvalFrame(e, env) == [op |-> "eval", e |-> e, env |-> env]
BlockFrame(stmts, env) == [op |-> "block", stmts |-> stmts, env |-> env]

\* ------------------------------------------------------------- try / catch
\* LoopNode.evaluate catches BreakBreakException and rethrows the rest;
\* FuncCallNode.evaluate catches ReturnBreakException and rethrows the rest.
CatchesAlsoReturn(f, sig) ==
    \/ f.op \in {"for", "while"} /\ sig.cls \in {"BreakBreakException", "ReturnBreakException"}
    \/ f.op = "callret" /\ sig.cls = "ReturnBreakException"

Catches(f, sig) ==
    \/ f.op \in {"for", "while"} /\ sig.cls = "BreakBreakException"
    \/ f.op = "callret" /\ sig.cls = "ReturnBreakException"

\* throw sig from an activation whose callers are k; HandlerIndex is the
\* position in k of the innermost catch clause that handles sig, 0 if none
Throw(k, sig) ==
    LET HandlerIndex ==
            IF \E i \in 1..Len(k) : Catches(k[i], sig)
            THEN CHOOSE i \in 1..Len(k) :
                    /\ Catches(k[i], sig)
                    /\ \A j \in 1..(i - 1) : ~Catches(k[j], sig)
            ELSE 0
        h == HandlerIndex
        LastN(s, n) == SubSeq(s, Len(s) - n + 1, Len(s))
    IN
    IF h = 0
    THEN /\ kont' = <<>>
         /\ status' = "failed"
         /\ raised' = sig
         /\ UNCHANGED <<vals, envs, rt>>
    ELSE /\ kont' = DropN(k, h)
         /\ envs' = SubSeq(envs, 1, k[h].env)
         /\ IF k[h].op = "callret"
            THEN \* catch (e) { popCallFrame(); return e.value; }
                 /\ rt' = popCallFrame(rt)
                 /\ vals' = <<sig.value>> \o LastN(vals, k[h].vd)
            ELSE \* catch (e) { return; }
                 /\ rt' = rt
                 /\ vals' = LastN(vals, k[h].vd)
         /\ UNCHANGED <<status, raised>>

\* ------------------------------------------------------------ StringNode
\* the StringNode objects of an AST: each is constructed once, by the parser
RECURSIVE stringNodesOfExpression(_), stringNodesOfStatement(_), stringNodesOf(_)
stringNodesOfExpression(e) ==
    CASE e.t = "String" -> {e}
      [] e.t \in {"Minus", "Len"} -> stringNodesOfExpression(e.e)
      [] e.t = "Array" -> UNION {stringNodesOfExpression(e.elems[i]) : i \in DOMAIN e.elems}
      [] e.t = "Function" -> stringNodesOf(e.body)
      [] e.t = "FuncCall" -> UNION {stringNodesOfExpression(e.args[i]) : i \in DOMAIN e.args}
      [] e.t = "Variable" -> UNION {stringNodesOfExpression(e.idx[i]) : i \in DOMAIN e.idx}
      [] OTHER -> {}

stringNodesOfStatement(s) ==
    CASE s.t \in {"Assignment", "Append"} ->
            stringNodesOfExpression(s.var) \cup stringNodesOfExpression(s.e)
      [] s.t \in {"Increment", "Decrement"} -> stringNodesOfExpression(s.var)
      [] s.t = "If" ->
            stringNodesOfExpression(s.l) \cup stringNodesOfExpression(s.r)
                \cup stringNodesOf(s.thenB) \cup stringNodesOf(s.elseB)
      [] s.t = "Loop" -> stringNodesOfExpression(s.count) \cup stringNodesOf(s.body)
      [] s.t \in {"Return", "ExpressionStatement"} -> stringNodesOfExpression(s.e)
      [] s.t = "Test" -> stringNodesOfExpression(s.e) \cup stringNodesOfExpression(s.answer)
      [] OTHER -> {}

stringNodesOf(stmts) == UNION {stringNodesOfStatement(stmts[i]) : i \in DOMAIN stmts}

\* new NanakoArray(content) for a string: the char codes, isStringView true
NanakoArrayOfString(content) ==
    [elements |-> [i \in 1..Len(content) |-> IntV(content[i])], isStringView |-> TRUE]

\* the NanakoArray objects the parse of p has made, one for each StringNode
parse(p) ==
    LET nodes == stringNodesOf(p) IN
    [r \in 1..Cardinality(nodes) |->
        NanakoArrayOfString((CHOOSE node \in nodes : node.value = r).content)]

\* ------------------------------------------------------------------- Init
EmptyEnv == [n \in {} |-> NullV]
\* no evaluation of the ProgramNode has ended yet
NoOutcome == [status |-> "none"]

Init ==
    /\ status = "new"
    /\ raised = NoException
    /\ prog = <<>>
    /\ kont = <<>>
    /\ vals = <<>>
    /\ envs = <<EmptyEnv>>
    /\ heap = <<>>
    /\ rt = NanakoRuntime
    /\ now \in {0, TickMs}
    /\ out = <<>>
    /\ first = NoOutcome
    /\ emitted = [lang |-> "none"]
    /\ code = <<>>

\* ------------------------------------------------- the world around exec
\* NanakoRuntime.exec: start(timeout), then program.evaluate(this, env)
exec(p, timeout) ==
    /\ status = "new"
    /\ status' = "running"
    /\ prog' = p
    /\ rt' = start(rt, timeout, now)
    /\ kont' = <<[op |-> "program", stmts |-> p, env |-> 1]>>
    /\ heap' = parse(p)
    /\ UNCHANGED <<raised, vals, envs, now, out, first, emitted, code>>

\* a value with every array in it replaced by its elements
RECURSIVE deepValue(_, _)
deepValue(h, v) ==
    IF IsNanakoArray(v)
    THEN [k |-> "arr",
          elements |-> [i \in 1..Len(h[v.r].elements) |-> deepValue(h, h[v.r].elements[i])]]
    ELSE v

\* what the caller of program.evaluate(runtime, env) has afterwards: the
\* exception if one was thrown, the env it passed, and what was printed
Outcome ==
    [status |-> status, raised |-> raised,
     env |-> [n \in DOMAIN envs[1] |-> deepValue(heap, envs[1][n])],
     out |-> out]

\* program.evaluate(runtime, env) once more on the same ProgramNode, with a
\* new NanakoRuntime started with the same timeout and a new empty env; the
\* AST, and with it the NanakoArray of every StringNode, is the one of before
evaluateAgain ==
    /\ status \in {"done", "failed"}
    /\ first = NoOutcome
    /\ first' = Outcome
    /\ status' = "running"
    /\ raised' = NoException
    /\ rt' = start(NanakoRuntime, rt.timeout, now)
    /\ kont' = <<[op |-> "program", stmts |-> prog, env |-> 1]>>
    /\ vals' = <<>>
    /\ envs' = <<EmptyEnv>>
    /\ out' = <<>>
    /\ UNCHANGED <<prog, heap, now, emitted, code>>

\* the embedding page sets runtime.shouldStop from outside the evaluation
RequestStop ==
    /\ status \in {"new", "running"}
    /\ ~rt.shouldStop
    /\ rt' = [rt EXCEPT !.shouldStop = TRUE]
    /\ UNCHANGED <<status, raised, prog, kont, vals, envs, heap, now, first, emitted, code, out>>

\* wall-clock time passes while the evaluation runs; the clock is watched
\* until the largest budget is exceeded
Tick ==
    /\ status = "running"
    /\ now - rt.startTime <= MaxBudget * MsPerSec
    /\ now' = now + TickMs
    /\ UNCHANGED <<status, raised, prog, kont, vals, envs, heap, rt, out, first, emitted, code>>

Running(op) == status = "running" /\ kont # <<>> /\ top.op = op
Evaluating(t) == Running("eval") /\ top.e.t = t
Executing(t) == Running("exec") /\ top.s.t = t

\* ------------------------------------------------ ProgramNode / BlockNode
ProgramNodeEvaluate ==
    /\ Running("program")
    /\ IF top.stmts = <<>>
       THEN /\ kont' = below
            /\ status' = "done"
       ELSE /\ kont' = <<[op |-> "exec", s |-> Head(top.stmts), env |-> top.env],
                         [top EXCEPT !.stmts = Tail(@)]>> \o below
            /\ status' = status
    /\ UNCHANGED <<raised, prog, vals, envs, heap, rt, now, first, emitted, code, out>>

BlockNodeEvaluate ==
    /\ Running("block")
    /\ IF top.stmts = <<>>
       THEN kont' = below
       ELSE kont' = <<[op |-> "exec", s |-> Head(top.stmts), env |-> top.env],
                      [top EXCEPT !.stmts = Tail(@)]>> \o below
    /\ UNCHANGED <<status, raised, prog, vals, envs, heap, rt, now, first, emitted, code, out>>

\* ------------------------------------------------------------ expressions
NullNodeEvaluate ==
    /\ Evaluating("Null")
    /\ kont' = below
    /\ vals' = <<NullV>> \o vals
    /\ UNCHANGED <<status, raised, prog, envs, heap, rt, now, first, emitted, code, out>>

NumberNodeEvaluate ==
    /\ Evaluating("Number")
    /\ kont' = below
    /\ vals' = <<IntV(top.e.n)>> \o vals
    /\ UNCHANGED <<status, raised, prog, envs, heap, rt, now, first, emitted, code, out>>

\* return this
FunctionNodeEvaluate ==
    /\ Evaluating("Function")
    /\ kont' = below
    /\ vals' = <<FnV(top.e.params, top.e.body)>> \o vals
    /\ UNCHANGED <<status, raised, prog, envs, heap, rt, now, first, emitted, code, out>>

\* StringNode.evaluate returns this.value, the array made by the constructor
StringNodeEvaluate ==
    /\ Evaluating("String")
    /\ vals' = <<ArrV(top.e.value)>> \o vals
    /\ kont' = below
    /\ UNCHANGED <<status, raised, prog, envs, heap, rt, now, first, emitted, code, out>>

MinusNodeEvaluate ==
    /\ Evaluating("Minus")
    /\ kont' = <<EvalFrame(top.e.e, top.env), [op |-> "minus"]>> \o below
    /\ UNCHANGED <<status, raised, prog, vals, envs, heap, rt, now, first, emitted, code, out>>

MinusNodeApply ==
    /\ Running("minus")
    /\ IF IsNumber(Head(vals))
       THEN /\ kont' = below
            /\ vals' = <<IntV(0 - Head(vals).n)>> \o Tail(vals)
            /\ UNCHANGED <<status, raised, envs, rt>>
       ELSE Throw(below, NanakoError("NotANumberMinus"))
    /\ UNCHANGED <<prog, heap, now, first, emitted, code, out>>

LenNodeEvaluate ==
    /\ Evaluating("Len")
    /\ kont' = <<EvalFrame(top.e.e, top.env), [op |-> "len"]>> \o below
    /\ UNCHANGED <<status, raised, prog, vals, envs, heap, rt, now, first, emitted, code, out>>

LenNodeApply ==
    /\ Running("len")
    /\ IF IsNanakoArray(Head(vals))
       THEN /\ kont' = below
            /\ vals' = <<IntV(Len(heap[Head(vals).r].elements))>> \o Tail(vals)
            /\ UNCHANGED <<status, raised, envs, rt>>
       ELSE Throw(below, NanakoError("NotAnArrayQ"))
    /\ UNCHANGED <<prog, heap, now, first, emitted, code, out>>

\* this.elements.map(element => element.evaluate(runtime, env))
ArrayNodeEvaluate ==
    /\ Evaluating("Array")
    /\ kont' = [i \in 1..Len(top.e.elems) |-> EvalFrame(top.e.elems[i], top.env)]
                \o <<[op |-> "array", cnt |-> Len(top.e.elems)]>> \o below
    /\ UNCHANGED <<status, raised, prog, vals, envs, heap, rt, now, first, emitted, code, out>>

\* new NanakoArray(arrayContent)
ArrayNodeNew ==
    /\ Running("array")
    /\ heap' = Append(heap, [elements |-> TakeArgs(vals, top.cnt), isStringView |-> FALSE])
    /\ vals' = <<ArrV(Len(heap) + 1)>> \o DropN(vals, top.cnt)
    /\ kont' = below
    /\ UNCHANGED <<status, raised, prog, envs, rt, now, first, emitted, code, out>>

\* VariableNode.evaluate: the name, then the index chain
VariableNodeEvaluate ==
    /\ Evaluating("Variable")
    /\ IF top.e.name \notin DOMAIN envs[top.env]
       THEN Throw(below, NanakoError("UnknownVariable"))
       ELSE /\ vals' = <<envs[top.env][top.e.name]>> \o vals
            /\ kont' = IF top.e.idx = <<>> THEN below
                       ELSE <<[op |-> "index", rest |-> top.e.idx, env |-> top.env]>> \o below
            /\ UNCHANGED <<status, raised, envs, rt>>
    /\ UNCHANGED <<prog, heap, now, first, emitted, code, out>>

\* for (const index of this.indices): the instanceof test, then index.evaluate
VariableNodeIndex ==
    /\ Running("index")
    /\ IF top.rest = <<>>
       THEN /\ kont' = below
            /\ UNCHANGED <<status, raised, vals, envs, rt>>
       ELSE IF ~IsNanakoArray(Head(vals))
       THEN Throw(below, NanakoError("NotAnArray"))
       ELSE /\ kont' = <<EvalFrame(Head(top.rest), top.env),
                         [op |-> "indexed", rest |-> Tail(top.rest), env |-> top.env]>> \o below
            /\ UNCHANGED <<status, raised, vals, envs, rt>>
    /\ UNCHANGED <<prog, heap, now, first, emitted, code, out>>

\* the message of the index error: the range 0 .. length - 1 and the index value
IndexRangeError(length, indexValue) ==
    [cls |-> "NanakoError", msg |-> "IndexOutOfRange",
     from |-> 0, to |-> length - 1, index |-> indexValue]

\* 0 < idx in place of 0 <= idx: the first element cannot be read
indexInRangeFromOne(indexValue, length) ==
    IsNumber(indexValue) /\ 0 < indexValue.n /\ indexValue.n < length

\* typeof indexValue === 'number' and 0 <= idx && idx < array.elements.length
indexInRange(indexValue, length) ==
    IsNumber(indexValue) /\ 0 <= indexValue.n /\ indexValue.n < length

\* the index value is on vals, the array under it
VariableNodeIndexed ==
    /\ Running("indexed")
    /\ LET indexValue == vals[1]
           array == heap[vals[2].r]
       IN IF indexInRange(indexValue, Len(array.elements))
          THEN /\ vals' = <<array.elements[indexValue.n + 1]>> \o DropN(vals, 2)
               /\ kont' = <<[op |-> "index", rest |-> top.rest, env |-> top.env]>> \o below
               /\ UNCHANGED <<status, raised, envs, rt>>
          ELSE Throw(below, IndexRangeError(Len(array.elements), indexValue))
    /\ UNCHANGED <<prog, heap, now, first, emitted, code, out>>

\* ------------------------------------------------------------ FuncCallNode
Range(s) == {s[i] : i \in 1..Len(s)}

\* newEnv = {} in place of { ...env }: the body would see its parameters only
bindParametersOnly(env, params, args) ==
    [n \in Range(params) |->
        args[CHOOSE i \in 1..Len(params) :
                params[i] = n /\ \A j \in (i + 1)..Len(params) : params[j] # n]]

\* const newEnv = { ...env }; newEnv[func.parameters[i]] = value  (i ascending)
bindParameters(env, params, args) ==
    [n \in DOMAIN env \cup Range(params) |->
        IF n \in Range(params)
        THEN args[CHOOSE i \in 1..Len(params) :
                    params[i] = n /\ \A j \in (i + 1)..Len(params) : params[j] # n]
        ELSE env[n]]

\* newEnv = env in place of { ...env }: the body would write into the caller's env
sameEnvObject(es, e) == e

\* { ...env } is a new object
newEnvObject(es, e) == Len(es) + 1

\* the arity test left out
arityUnchecked(func, args) == FALSE
\* func.parameters.length !== this.arguments.length
arityDiffers(func, args) == Len(func.params) # Len(args)

\* the lookup of the callee and the arity test come before any argument
FuncCallNodeEvaluate ==
    /\ Evaluating("FuncCall")
    /\ IF top.e.name \notin DOMAIN envs[top.env]
       THEN Throw(below, NanakoError("FunctionNotFound"))
       ELSE LET func == envs[top.env][top.e.name] IN
            IF ~IsFunction(func)
            THEN \* func.parameters is undefined: reading .length of it throws
                 Throw(below, HostError("TypeError"))
            ELSE IF arityDiffers(func, top.e.args)
            THEN Throw(below, NanakoError("ArgumentCountMismatch"))
            ELSE /\ kont' = [i \in 1..Len(top.e.args) |-> EvalFrame(top.e.args[i], top.env)]
                            \o <<[op |-> "call", name |-> top.e.name, func |-> func,
                                  env |-> top.env]>> \o below
                 /\ UNCHANGED <<status, raised, vals, envs, rt>>
    /\ UNCHANGED <<prog, heap, now, first, emitted, code, out>>

\* the arguments are evaluated: bind them, pushCallFrame, func.body.evaluate
FuncCallNodeInvoke ==
    /\ Running("call")
    /\ LET n == Len(top.func.params)
           args == TakeArgs(vals, n)
           id == newEnvObject(envs, top.env)
           newEnv == bindParameters(envs[top.env], top.func.params, args)
       IN /\ envs' = IF id = Len(envs) + 1 THEN Append(envs, newEnv)
                     ELSE [envs EXCEPT ![id] = newEnv]
          /\ rt' = pushCallFrame(rt, top.name, args)
          /\ vals' = DropN(vals, n)
          /\ kont' = <<BlockFrame(top.func.body, id),
                       [op |-> "callret", env |-> top.env, vd |-> Len(vals) - n]>> \o below
    /\ UNCHANGED <<status, raised, prog, heap, now, first, emitted, code, out>>

\* the body ran to its end: popCallFrame(); return null
FuncCallNodeReturn ==
    /\ Running("callret")
    /\ rt' = popCallFrame(rt)
    /\ vals' = <<NullV>> \o vals
    /\ envs' = SubSeq(envs, 1, top.env)
    /\ kont' = below
    /\ UNCHANGED <<status, raised, prog, heap, now, first, emitted, code, out>>

\* -------------------------------------------------------------- statements
AssignmentNodeEvaluate ==
    /\ Executing("Assignment")
    /\ kont' = <<EvalFrame(top.s.e, top.env),
                 [op |-> "store", var |-> top.s.var, env |-> top.env]>> \o below
    /\ UNCHANGED <<status, raised, prog, vals, envs, heap, rt, now, first, emitted, code, out>>

\* VariableNode.evaluateWith(runtime, env, value): value is on vals
VariableNodeEvaluateWith ==
    /\ Running("store")
    /\ IF top.var.idx = <<>>
       THEN /\ envs' = [envs EXCEPT ![top.env] =
                          [n \in DOMAIN @ \cup {top.var.name} |->
                              IF n = top.var.name THEN Head(vals) ELSE @[n]]]
            /\ vals' = Tail(vals)
            /\ kont' = below
            /\ UNCHANGED <<status, raised, rt>>
       ELSE IF top.var.name \notin DOMAIN envs[top.env]
       THEN Throw(below, NanakoError("UnknownVariable"))
       ELSE /\ vals' = <<envs[top.env][top.var.name]>> \o vals
            /\ kont' = <<[op |-> "windex", var |-> top.var, i |-> 1, env |-> top.env]>> \o below
            /\ UNCHANGED <<status, raised, envs, rt>>
    /\ UNCHANGED <<prog, heap, now, first, emitted, code, out>>

\* evaluateWith, the loop over the indices: the instanceof test, then indices[i].evaluate
VariableNodeWriteIndex ==
    /\ Running("windex")
    /\ IF ~IsNanakoArray(Head(vals))
       THEN Throw(below, NanakoError("NotAnArray"))
       ELSE /\ kont' = <<EvalFrame(top.var.idx[top.i], top.env),
                         [op |-> "windexed", var |-> top.var, i |-> top.i,
                          env |-> top.env]>> \o below
            /\ UNCHANGED <<status, raised, vals, envs, rt>>
    /\ UNCHANGED <<prog, heap, now, first, emitted, code, out>>

\* vals = <<index value, array, value to store, ...>>
\* Every path of the loop body that does not return ends in the break at its
\* end, an index in range that is not the last one included (array is set to
\* the element, and then the loop is left).  The throw after the loop builds
\* its message from array.elements.length, a TypeError of the host when the
\* element is not an object with elements, and then from indexValue, a const
\* of the loop body that is out of scope there: a ReferenceError of the host.
VariableNodeWriteIndexed ==
    /\ Running("windexed")
    /\ LET indexValue == vals[1]
           r == vals[2].r
           value == vals[3]
           last == top.i = Len(top.var.idx)
           inRange == IsNumber(indexValue) /\ 0 <= indexValue.n
                        /\ indexValue.n < Len(heap[r].elements)
       IN IF inRange /\ last
          THEN \* array.elements[idx] = value
               /\ heap' = [heap EXCEPT ![r].elements[indexValue.n + 1] = value]
               /\ vals' = DropN(vals, 3)
               /\ kont' = below
               /\ UNCHANGED <<status, raised, envs, rt>>
          ELSE IF indexValue = NullV /\ last
          THEN \* array.elements.push(value)
               /\ heap' = [heap EXCEPT ![r].elements = Append(@, value)]
               /\ vals' = DropN(vals, 3)
               /\ kont' = below
               /\ UNCHANGED <<status, raised, envs, rt>>
          ELSE IF inRange /\ ~IsNanakoArray(heap[r].elements[indexValue.n + 1])
          THEN /\ heap' = heap
               /\ Throw(below, HostError("TypeError"))
          ELSE /\ heap' = heap
               /\ Throw(below, HostError("ReferenceError"))
    /\ UNCHANGED <<prog, now, first, emitted, code, out>>

IncrementNodeEvaluate ==
    /\ Executing("Increment")
    /\ kont' = <<EvalFrame(top.s.var, top.env),
                 [op |-> "increment", var |-> top.s.var, env |-> top.env]>> \o below
    /\ UNCHANGED <<status, raised, prog, vals, envs, heap, rt, now, first, emitted, code, out>>

\* the test lets null through (value + 1 is 1 for null)
IncrementNodeApplyNull ==
    /\ Running("increment")
    /\ IF IsNumber(Head(vals)) \/ Head(vals) = NullV
       THEN /\ vals' = <<IntV((IF IsNumber(Head(vals)) THEN Head(vals).n ELSE 0) + 1)>>
                            \o Tail(vals)
            /\ kont' = <<[op |-> "store", var |-> top.var, env |-> top.env],
                         [op |-> "incrementCount"]>> \o below
            /\ UNCHANGED <<status, raised, envs, rt>>
       ELSE Throw(below, NanakoError("NotANumber"))
    /\ UNCHANGED <<prog, heap, now, first, emitted, code, out>>

\* the typeof test, then this.variable.evaluateWith(runtime, env, value + 1)
IncrementNodeApply ==
    /\ Running("increment")
    /\ IF IsNumber(Head(vals))
       THEN /\ vals' = <<IntV(Head(vals).n + 1)>> \o Tail(vals)
            /\ kont' = <<[op |-> "store", var |-> top.var, env |-> top.env],
                         [op |-> "incrementCount"]>> \o below
            /\ UNCHANGED <<status, raised, envs, rt>>
       ELSE Throw(below, NanakoError("NotANumber"))
    /\ UNCHANGED <<prog, heap, now, first, emitted, code, out>>

\* runtime.incrementCount += 1
IncrementNodeCount ==
    /\ Running("incrementCount")
    /\ rt' = [rt EXCEPT !.incrementCount = @ + 1]
    /\ kont' = below
    /\ UNCHANGED <<status, raised, prog, vals, envs, heap, now, first, emitted, code, out>>

DecrementNodeEvaluate ==
    /\ Executing("Decrement")
    /\ kont' = <<EvalFrame(top.s.var, top.env),
                 [op |-> "decrement", var |-> top.s.var, env |-> top.env]>> \o below
    /\ UNCHANGED <<status, raised, prog, vals, envs, heap, rt, now, first, emitted, code, out>>

DecrementNodeApply ==
    /\ Running("decrement")
    /\ IF IsNumber(Head(vals))
       THEN /\ vals' = <<IntV(Head(vals).n - 1)>> \o Tail(vals)
            /\ kont' = <<[op |-> "store", var |-> top.var, env |-> top.env],
                         [op |-> "decrementCount"]>> \o below
            /\ UNCHANGED <<status, raised, envs, rt>>
       ELSE Throw(below, NanakoError("NotANumber"))
    /\ UNCHANGED <<prog, heap, now, first, emitted, code, out>>

\* runtime.decrementCount += 1
DecrementNodeCount ==
    /\ Running("decrementCount")
    /\ rt' = [rt EXCEPT !.decrementCount = @ + 1]
    /\ kont' = below
    /\ UNCHANGED <<status, raised, prog, vals, envs, heap, now, first, emitted, code, out>>

AppendNodeEvaluate ==
    /\ Executing("Append")
    /\ kont' = <<EvalFrame(top.s.var, top.env),
                 [op |-> "appendCheck", e |-> top.s.e, env |-> top.env]>> \o below
    /\ UNCHANGED <<status, raised, prog, vals, envs, heap, rt, now, first, emitted, code, out>>

\* the instanceof test on the target, then this.expression.evaluate
AppendNodeCheck ==
    /\ Running("appendCheck")
    /\ IF IsNanakoArray(Head(vals))
       THEN /\ kont' = <<EvalFrame(top.e, top.env), [op |-> "appendPush"]>> \o below
            /\ UNCHANGED <<status, raised, vals, envs, rt>>
       ELSE Throw(below, NanakoError("NotAnArrayQ"))
    /\ UNCHANGED <<prog, heap, now, first, emitted, code, out>>

\* array.elements.push(value)
AppendNodePush ==
    /\ Running("appendPush")
    /\ heap' = [heap EXCEPT ![vals[2].r].elements = Append(@, vals[1])]
    /\ vals' = DropN(vals, 2)
    /\ kont' = below
    /\ UNCHANGED <<status, raised, prog, envs, rt, now, first, emitted, code, out>>

\* ------------------------------------------------------------------ IfNode
\* the operators of IfNode.evaluate on the values of the model: a number is
\* itself, null counts as 0 under the relational operators, and a NanakoArray
\* or a FunctionNode against a number or null is NaN, which makes them false.
\* === and !== compare numbers by value and objects by identity (an array is
\* its heap position; a FunctionNode is its parameters and body).
\* (Two objects under a relational operator are compared as strings by the
\* host; IfNodeBranch does not take that step.)
IsPrimitive(v) == v.k \in {"int", "null"}
ToNumber(v) == IF v.k = "int" THEN v.n ELSE 0
Relational(cmp) == cmp \in {"ge", "le", "gt", "lt", "lt2"}
\* 未満 taken for 以下: leftValue <= rightValue
CompareLt2AsLe(cmp, l, r) ==
    IF cmp = "ne" THEN l # r
    ELSE IF ~Relational(cmp) THEN l = r
    ELSE IF ~(IsPrimitive(l) /\ IsPrimitive(r)) THEN FALSE
    ELSE IF cmp = "ge" THEN ToNumber(l) >= ToNumber(r)
    ELSE IF cmp \in {"le", "lt2"} THEN ToNumber(l) <= ToNumber(r)
    ELSE IF cmp = "gt" THEN ToNumber(l) > ToNumber(r)
    ELSE ToNumber(l) < ToNumber(r)

\* "ge" 以上, "le" 以下, "gt" より大きい, "lt" より小さい, "ne" 以外, "lt2" 未満, "" none
Compare(cmp, l, r) ==
    IF cmp = "ne" THEN l # r
    ELSE IF ~Relational(cmp) THEN l = r
    ELSE IF ~(IsPrimitive(l) /\ IsPrimitive(r)) THEN FALSE
    ELSE IF cmp = "ge" THEN ToNumber(l) >= ToNumber(r)
    ELSE IF cmp = "le" THEN ToNumber(l) <= ToNumber(r)
    ELSE IF cmp = "gt" THEN ToNumber(l) > ToNumber(r)
    ELSE ToNumber(l) < ToNumber(r)

IfNodeEvaluate ==
    /\ Executing("If")
    /\ kont' = <<EvalFrame(top.s.l, top.env), EvalFrame(top.s.r, top.env),
                 [op |-> "if", s |-> top.s, env |-> top.env]>> \o below
    /\ UNCHANGED <<status, raised, prog, vals, envs, heap, rt, now, first, emitted, code, out>>

\* vals = <<rightValue, leftValue, ...>>
IfNodeBranch ==
    /\ Running("if")
    /\ Relational(top.s.cmp) => IsPrimitive(vals[1]) \/ IsPrimitive(vals[2])
    /\ rt' = [rt EXCEPT !.compareCount = @ + 1]
    /\ vals' = DropN(vals, 2)
    /\ kont' = IF Compare(top.s.cmp, vals[2], vals[1])
               THEN <<BlockFrame(top.s.thenB, top.env)>> \o below
               ELSE IF top.s.hasElse
               THEN <<BlockFrame(top.s.elseB, top.env)>> \o below
               ELSE below
    /\ UNCHANGED <<status, raised, prog, envs, heap, now, first, emitted, code, out>>

\* ---------------------------------------------------------------- LoopNode
\* Array.isArray(loopCount): no value of the evaluator is a host array
\* (ArrayNode.evaluate returns a NanakoArray object)
isArray(v) == FALSE

\* loopCount < 0 without the test: the count would go on to the for loop
neverNegative(v) == FALSE

\* loopCount < 0: NaN for an object, which is not below 0
isNegative(v) == IsPrimitive(v) /\ ToNumber(v) < 0

\* i <= Math.floor(loopCount): one iteration too many
loopConditionInclusive(i, loopCount) == IsNumber(loopCount) /\ i <= loopCount.n

\* i < Math.floor(loopCount): NaN for an object, and then false
loopCondition(i, loopCount) == IsNumber(loopCount) /\ i < loopCount.n

LoopNodeEvaluate ==
    /\ Executing("Loop")
    /\ kont' = <<EvalFrame(top.s.count, top.env),
                 [op |-> "loop", s |-> top.s, env |-> top.env]>> \o below
    /\ UNCHANGED <<status, raised, prog, vals, envs, heap, rt, now, first, emitted, code, out>>

\* the count is evaluated: choose the while (true) loop, an error or the for loop
LoopNodeStart ==
    /\ Running("loop")
    /\ LET loopCount == Head(vals) IN
       IF loopCount = NullV
       THEN /\ kont' = <<[op |-> "while", body |-> top.s.body, env |-> top.env,
                          vd |-> Len(vals) - 1]>> \o below
            /\ vals' = Tail(vals)
            /\ UNCHANGED <<status, raised, envs, rt>>
       ELSE IF isArray(loopCount)
       THEN Throw(below, NanakoError("LoopCountIsArray"))
       ELSE IF isNegative(loopCount)
       THEN Throw(below, NanakoError("NegativeLoopCount"))
       ELSE /\ kont' = <<[op |-> "for", i |-> 0, cnt |-> loopCount, body |-> top.s.body,
                          env |-> top.env, vd |-> Len(vals) - 1]>> \o below
            /\ vals' = Tail(vals)
            /\ UNCHANGED <<status, raised, envs, rt>>
    /\ UNCHANGED <<prog, heap, now, first, emitted, code, out>>

\* while (true) { runtime.checkExecution(details); this.body.evaluate(runtime, env); }
LoopNodeWhile ==
    /\ Running("while")
    /\ LET c == checkExecution(rt, now) IN
       IF c # "ok"
       THEN Throw(below, checkExecutionError(c))
       ELSE /\ kont' = <<BlockFrame(top.body, top.env)>> \o kont
            /\ UNCHANGED <<status, raised, vals, envs, rt>>
    /\ UNCHANGED <<prog, heap, now, first, emitted, code, out>>

\* for (let i = 0; i < Math.floor(loopCount); i++) { checkExecution; body.evaluate }
LoopNodeFor ==
    /\ Running("for")
    /\ IF ~loopCondition(top.i, top.cnt)
       THEN /\ kont' = below
            /\ UNCHANGED <<status, raised, vals, envs, rt>>
       ELSE LET c == checkExecution(rt, now) IN
            IF c # "ok"
            THEN Throw(below, checkExecutionError(c))
            ELSE /\ kont' = <<BlockFrame(top.body, top.env),
                              [top EXCEPT !.i = @ + 1]>> \o below
                 /\ UNCHANGED <<status, raised, vals, envs, rt>>
    /\ UNCHANGED <<prog, heap, now, first, emitted, code, out>>

\* throw new BreakBreakException()
BreakNodeEvaluate ==
    /\ Executing("Break")
    /\ Throw(below, BreakBreakException)
    /\ UNCHANGED <<prog, heap, now, first, emitted, code, out>>

ReturnNodeEvaluate ==
    /\ Executing("Return")
    /\ kont' = <<EvalFrame(top.s.e, top.env), [op |-> "return"]>> \o below
    /\ UNCHANGED <<status, raised, prog, vals, envs, heap, rt, now, first, emitted, code, out>>

\* throw new ReturnBreakException(value)
ReturnNodeThrow ==
    /\ Running("return")
    /\ Throw(below, ReturnBreakException(Head(vals)))
    /\ UNCHANGED <<prog, heap, now, first, emitted, code, out>>

ExpressionStatementNodeEvaluate ==
    /\ Executing("ExpressionStatement")
    /\ kont' = <<EvalFrame(top.s.e, top.env), [op |-> "print"]>> \o below
    /\ UNCHANGED <<status, raised, prog, vals, envs, heap, rt, now, first, emitted, code, out>>

\* runtime.print(value, ...): the text of an array is the text of its elements
ExpressionStatementNodePrint ==
    /\ Running("print")
    /\ out' = Append(out, IF IsNanakoArray(Head(vals))
                          THEN [k |-> "text", elements |-> heap[Head(vals).r].elements]
                          ELSE Head(vals))
    /\ vals' = Tail(vals)
    /\ kont' = below
    /\ UNCHANGED <<status, raised, prog, envs, heap, rt, now, first, emitted, code>>

\* ---------------------------------------------------------------- TestNode
\* NanakoArray.equals: the same length and, position by position, equal arrays
\* (by equals) or identical values; h is the heap, r and q two arrays of it
RECURSIVE equals(_, _, _)
equals(h, r, q) ==
    /\ Len(h[r].elements) = Len(h[q].elements)
    /\ \A i \in 1..Len(h[r].elements) :
          LET a == h[r].elements[i]
              b == h[q].elements[i]
          IN IF IsNanakoArray(a) /\ IsNanakoArray(b) THEN equals(h, a.r, b.r)
             ELSE a = b

\* `${value}` in a message: an array is shown by the text of its elements
valueText(h, v) ==
    IF IsNanakoArray(v) THEN [k |-> "text", elements |-> h[v.r].elements] ELSE v

\* the message of a failed test shows the value of the expression
TestFailed(shown) == [cls |-> "NanakoError", msg |-> "TestFailed", value |-> shown]

TestNodeEvaluate ==
    /\ Executing("Test")
    /\ kont' = <<EvalFrame(top.s.e, top.env), EvalFrame(top.s.answer, top.env),
                 [op |-> "test"]>> \o below
    /\ UNCHANGED <<status, raised, prog, vals, envs, heap, rt, now, first, emitted, code, out>>

\* if (value !== answerValue) throw: numbers and null are compared by value,
\* NanakoArray objects by identity; vals = <<answerValue, value, ...>>
TestNodeCompare ==
    /\ Running("test")
    /\ LET value == vals[2]
           answerValue == vals[1]
       IN IF value # answerValue
          THEN Throw(below, TestFailed(valueText(heap, value)))
          ELSE /\ vals' = DropN(vals, 2)
               /\ kont' = below
               /\ UNCHANGED <<status, raised, envs, rt>>
    /\ UNCHANGED <<prog, heap, now, first, emitted, code, out>>

\* -------------------------------------------------------------------- emit
\* emit(lang, indent) is modelled for the two dialects "js" and "py".
\* lines.join(sep)
RECURSIVE join(_, _)
join(lines, sep) ==
    IF lines = <<>> THEN ""
    ELSE IF Len(lines) = 1 THEN lines[1]
    ELSE lines[1] \o sep \o join(Tail(lines), sep)

\* text.trim(): the blanks and line ends at both ends are removed
RECURSIVE trim(_)
trim(text) ==
    IF text = "" THEN ""
    ELSE IF SubSeq(text, 1, 1) \in {" ", "\n", "\t"} THEN trim(SubSeq(text, 2, Len(text)))
    ELSE IF SubSeq(text, Len(text), Len(text)) \in {" ", "\n", "\t"}
    THEN trim(SubSeq(text, 1, Len(text) - 1))
    ELSE text

\* NanakoArray.emit of an array with isStringView: the quoted characters
\* (String.fromCharCode of a value that is no number is the character 0).
\* escapedChar is String.fromCharCode(code) followed by the replace() calls;
\* a code outside the letters used here is written by its number
emitStringView(h, r) ==
    LET escapedChar(c) ==
            CASE c = 97 -> "a"
              [] c = 98 -> "b"
              [] c = 99 -> "c"
              [] c = 10 -> "\\n"
              [] c = 9 -> "\\t"
              [] c = 92 -> "\\\\"
              [] c = 34 -> "\\\""
              [] OTHER -> "<" \o ToString(c) \o ">"
    IN "\"" \o join([i \in 1..Len(h[r].elements) |->
                    IF IsNumber(h[r].elements[i]) THEN escapedChar(h[r].elements[i].n)
                    ELSE escapedChar(0)], "") \o "\""

RECURSIVE emitExpression(_, _, _, _), emitFunction(_, _, _, _, _),
          emitStatement(_, _, _, _), emitBlock(_, _, _, _)

\* emit(lang, indent) of the expression nodes; h is the heap, which
\* StringNode.emit reads (this.value.emit)
emitExpression(h, e, lang, indent) ==
    CASE e.t = "Number" -> ToString(e.n)
      [] e.t = "Null" -> IF lang = "py" THEN "None" ELSE "null"
      [] e.t = "Len" ->
            IF lang = "py" THEN "len(" \o emitExpression(h, e.e, lang, indent) \o ")"
            ELSE "(" \o emitExpression(h, e.e, lang, indent) \o ").length"
      [] e.t = "Minus" -> "-" \o emitExpression(h, e.e, lang, indent)
      [] e.t = "Array" ->
            "[" \o join([i \in 1..Len(e.elems) |->
                            emitExpression(h, e.elems[i], lang, indent)], ", ") \o "]"
      [] e.t = "String" -> emitStringView(h, e.value)
      [] e.t = "Function" -> emitFunction(h, e, "<lambda>", lang, indent)
      [] e.t = "FuncCall" ->
            e.name \o "(" \o join([i \in 1..Len(e.args) |->
                            emitExpression(h, e.args[i], lang, indent)], ", ") \o ")"
      [] e.t = "Variable" ->
            e.name \o join([i \in 1..Len(e.idx) |->
                            "[" \o emitExpression(h, e.idx[i], lang, indent) \o "]"], "")

\* FunctionNode.emit; name is the name the AssignmentNode constructor gave the
\* node, "<lambda>" for a FunctionNode that is not the expression of an assignment
emitFunction(h, f, name, lang, indent) ==
    LET params == join(f.params, ", ")
        body == emitBlock(h, f.body, lang, indent)
    IN IF lang = "py"
       THEN IF name # "<lambda>"
            THEN "def " \o name \o "(" \o params \o "):\n" \o body \o "\n"
            ELSE "lambda " \o params \o ": (" \o trim(body) \o ")"
       ELSE "function (" \o params \o ") {\n" \o body

\* BlockNode.emit: the statements one unit deeper than indent, then pass (py,
\* no statement) or the closing brace (js), both at indent
emitBlock(h, stmts, lang, indent) ==
    LET lines == [i \in 1..Len(stmts) |->
                    emitStatement(h, stmts[i], lang, indent \o "    ")]
    IN join(IF lang = "py"
            THEN IF Len(lines) = 0 THEN <<indent \o "pass">> ELSE lines
            ELSE Append(lines, indent \o "}"), "\n")

\* emit(lang, indent) of the statement nodes; semicolon is
\* StatementNode.semicolon, endsWith and sliceEnd are text.endsWith(suffix) and
\* text.slice(0, -n), emitOperator is the operator an IfNode emits
emitStatement(h, s, lang, indent) ==
    LET semicolon == IF lang = "py" THEN "" ELSE ";"
        endsWith(text, suffix) ==
            Len(text) >= Len(suffix)
                /\ SubSeq(text, Len(text) - Len(suffix) + 1, Len(text)) = suffix
        sliceEnd(text, n) == SubSeq(text, 1, Len(text) - n)
        emitOperator(cmp) ==
            CASE cmp = "ge" -> ">="
              [] cmp = "le" -> "<="
              [] cmp = "gt" -> ">"
              [] cmp = "lt" -> "<"
              [] cmp = "ne" -> "!="
              [] cmp = "lt2" -> "<"
              [] OTHER -> "=="
    IN
    CASE s.t = "Assignment" ->
            LET variable == emitExpression(h, s.var, lang, indent)
                expression == IF s.e.t = "Function"
                              THEN emitFunction(h, s.e, s.var.name, lang, indent)
                              ELSE emitExpression(h, s.e, lang, indent)
            IN IF endsWith(variable, "[null]") \/ endsWith(variable, "[None]")
               THEN IF lang = "py"
                    THEN indent \o sliceEnd(variable, 6) \o ".append(" \o expression \o ")"
                    ELSE indent \o sliceEnd(variable, 6) \o ".push(" \o expression \o ")"
                            \o semicolon
               ELSE IF s.e.t = "Function"
               THEN IF lang = "py" THEN indent \o expression
                    ELSE indent \o variable \o " = " \o expression \o "\n"
               ELSE indent \o variable \o " = " \o expression \o semicolon
      [] s.t = "Increment" ->
            indent \o emitExpression(h, s.var, lang, indent) \o " += 1" \o semicolon
      [] s.t = "Decrement" ->
            indent \o emitExpression(h, s.var, lang, indent) \o " -= 1" \o semicolon
      [] s.t = "Append" ->
            indent \o emitExpression(h, s.var, lang, indent)
                \o (IF lang = "py" THEN ".append(" ELSE ".push(")
                \o emitExpression(h, s.e, lang, indent) \o ")" \o semicolon
      [] s.t = "If" ->
            LET cond == emitExpression(h, s.l, lang, indent) \o " " \o emitOperator(s.cmp)
                            \o " " \o emitExpression(h, s.r, lang, indent)
                head == IF lang = "py" THEN indent \o "if " \o cond \o ":"
                        ELSE indent \o "if(" \o cond \o ") {"
                else == IF lang = "py" THEN indent \o "else:" ELSE indent \o "else {"
            IN join(<<head, emitBlock(h, s.thenB, lang, indent)>>
                    \o (IF s.hasElse THEN <<else, emitBlock(h, s.elseB, lang, indent)>>
                        ELSE <<>>), "\n")
      [] s.t = "Loop" ->
            LET i == "i" \o ToString(Len(indent) \div 4)
                head == IF s.count.t = "Null"
                        THEN IF lang = "py" THEN indent \o "while True:"
                             ELSE indent \o "while(true) {"
                        ELSE IF lang = "py"
                        THEN indent \o "for _ in range("
                                \o emitExpression(h, s.count, lang, indent) \o "):"
                        ELSE indent \o "for(var " \o i \o " = 0; " \o i \o " < "
                                \o emitExpression(h, s.count, lang, indent)
                                \o "; " \o i \o "++) {"
            IN join(<<head, emitBlock(h, s.body, lang, indent)>>, "\n")
      [] s.t = "Break" -> indent \o "break" \o semicolon
      [] s.t = "Return" ->
            indent \o "return " \o emitExpression(h, s.e, lang, indent) \o semicolon
      [] s.t = "ExpressionStatement" ->
            indent \o emitExpression(h, s.e, lang, indent) \o semicolon
      [] s.t = "Test" ->
            indent \o (IF lang = "js" THEN "console.assert(" ELSE "assert (")
                \o emitExpression(h, s.e, lang, indent) \o " == "
                \o emitExpression(h, s.answer, lang, indent) \o ")" \o semicolon

\* ProgramNode.emit: the statements at indent, one per line
emitProgram(h, p, lang, indent) ==
    join([i \in 1..Len(p) |-> emitStatement(h, p[i], lang, indent)], "\n")

\* program.emit(lang, indent) on the parsed ProgramNode, while no evaluate() is
\* on the stack: the program is parsed and its evaluation has not made a step
\* yet, or the evaluation has ended. The emit methods assign to nothing but
\* their own locals
emit(lang, indent) ==
    /\ \/ status \in {"done", "failed"}
       \/ status = "running" /\ vals = <<>>
            /\ kont = <<[op |-> "program", stmts |-> prog, env |-> 1]>>
    /\ emitted' = [lang |-> lang, indent |-> indent,
                   text |-> emitProgram(heap, prog, lang, indent)]
    /\ UNCHANGED <<status, raised, prog, kont, vals, envs, heap, rt, now, out, first, code>>

\* ---------------------------------------------------------------- NanakoParser
\* A source text is the sequence of its characters. A character of the ASCII
\* range is written as itself; a Japanese character is written by a name of
\* two or more capital letters (WO for を, TO SU RU for とする, ..), a full-width
\* digit by FW and the digit.
\* the words of the grammar
Words ==
    [moshi |-> <<"MO", "SHI">>,                                   \* もし
     ga |-> <<"GA">>,                                             \* が
     naraba |-> <<"NA", "RA", "BA">>,                             \* ならば
     soudenakereba |-> <<"SO", "UU", "DE", "NA", "KE", "RE", "BA">>,  \* そうでなければ
     kai |-> <<"KAI">>,                                           \* 回
     kurikaesu |-> <<"KU", "RI", "KAE", "SU">>,                   \* くり返す
     wo |-> <<"WO">>,                                             \* を
     tosuru |-> <<"TO", "SU", "RU">>,                             \* とする
     fuyasu |-> <<"FU", "YA", "SU">>,                             \* 増やす
     herasu |-> <<"HE", "RA", "SU">>,                             \* 減らす
     nomatsubini |-> <<"NO", "MATSU", "BI", "NI">>,               \* の末尾に
     tsuikasuru |-> <<"TSUI", "KA", "SU", "RU">>,                 \* 追加する
     gakotae |-> <<"GA", "KOTA", "EE">>,                          \* が答え
     nukeru |-> <<"KU", "RI", "KAE", "SHI", "WO", "NU", "KE", "RU">>,  \* くり返しを抜ける
     nitaishi |-> <<"NI", "TAI", "SHI">>,                         \* に対し
     null |-> <<"n", "u", "l", "l">>]

\* normalize: a full-width digit or letter becomes the half-width one
normalize(text) ==
    [i \in 1..Len(text) |->
        IF Len(text[i]) = 3 /\ SubSeq(text[i], 1, 2) = "FW" THEN SubSeq(text[i], 3, 3)
        ELSE text[i]]

\* this.text.slice(pos).startsWith(string); positions are counted from 0, so
\* this.text[pos] is text[pos + 1]
startsWith(text, pos, string) ==
    pos + Len(string) <= Len(text) /\ SubSeq(text, pos + 1, pos + Len(string)) = string

\* what a parse function returns: a node, null with the position restored, or
\* the NanakoError it throws
Node(node, pos) == [r |-> "node", node |-> node, pos |-> pos]
Null(pos) == [r |-> "null", pos |-> pos]
SyntaxError(msg, pos) == [r |-> "error", msg |-> msg, pos |-> pos]

RECURSIVE consumeUntilEol(_, _)
consumeUntilEol(text, pos) ==
    IF pos < Len(text) /\ text[pos + 1] # "\n" THEN consumeUntilEol(text, pos + 1)
    ELSE IF pos < Len(text) THEN pos + 1
    ELSE pos

RECURSIVE consumeWhitespace(_, _, _)
consumeWhitespace(text, pos, includeNewline) ==
    IF pos >= Len(text) THEN pos
    ELSE IF text[pos + 1] = "#"
    THEN consumeWhitespace(text, consumeUntilEol(text, pos + 1), includeNewline)
    ELSE IF text[pos + 1] \in (IF includeNewline THEN {" ", "\t", "\n", "\r"} ELSE {" ", "\t"})
    THEN consumeWhitespace(text, pos + 1, includeNewline)
    ELSE pos

\* while (this.consumeDigit()): the position after the digits that start at pos
RECURSIVE digitEnd(_, _)
digitEnd(text, pos) ==
    LET Digits == {"0", "1", "2", "3", "4", "5", "6", "7", "8", "9"}
    IN IF pos < Len(text) /\ text[pos + 1] \in Digits THEN digitEnd(text, pos + 1) ELSE pos

\* を ends a name as well
DefinitionStopsAndWo ==
    {" ", "\t", "\n", "\r", ",", "=", "[", "]", "(", ")", "{", "}", "#", "WO"}
\* the characters that end a name in a definition context
DefinitionStops == {" ", "\t", "\n", "\r", ",", "=", "[", "]", "(", ")", "{", "}", "#"}

\* parseIdentifier: the name and the position after it, or null.
\* notIdentifierWords: none of the excluded words starts at pos.
\* definitionNameEnd is parseIdentifier(true): everything up to a stop
\* character or to one of に対し, を増やす, を減らす, の末尾に.
\* alphaEnd is parseIdentifier(false): a letter, then letters while no excluded
\* word starts; the digits follow
parseIdentifier(text, pos, definitionContext) ==
    LET \* the characters consumeAlpha takes: the letters, and the hiragana,
        \* katakana and kanji of the texts
        Alpha ==
            {"a", "b", "c", "d", "e", "f", "g", "h", "i", "j", "k", "l", "m", "n", "o", "p",
             "q", "r", "s", "t", "u", "v", "w", "x", "y", "z", "_"}
            \cup
            {"MO", "SHI", "GA", "NA", "RA", "BA", "SO", "UU", "DE", "KE", "RE", "KAI", "KU",
             "RI", "KAE", "SU", "WO", "TO", "RU", "FU", "YA", "HE", "NO", "MATSU", "BI",
             "NI", "TSUI", "KA", "KOTA", "EE", "NU", "TAI", "TE", "MOTTE", "JOU", "SHITA",
             "YO", "OO", "KI", "II", "CHII", "SA", "GAI", "MI", "MAN", "HEN", "SUU"}
        consumeAlpha(p) == p < Len(text) /\ text[p + 1] \in Alpha
        notIdentifierWords(p) ==
            \A kw \in {Words.kurikaesu, Words.wo, Words.kai, Words.tosuru, Words.ga,
                       Words.naraba, Words.nitaishi, Words.wo \o Words.fuyasu,
                       Words.wo \o Words.herasu, Words.nomatsubini} :
                ~startsWith(text, p, kw)
        RECURSIVE definitionNameEnd(_)
        definitionNameEnd(p) ==
            IF p >= Len(text) THEN p
            ELSE IF text[p + 1] \in DefinitionStops THEN p
            ELSE IF text[p + 1] \in {"NI", "WO", "NO"}
                    /\ \E kw \in {Words.nitaishi, Words.wo \o Words.fuyasu,
                                  Words.wo \o Words.herasu, Words.nomatsubini} :
                          startsWith(text, p, kw)
            THEN p
            ELSE definitionNameEnd(p + 1)
        RECURSIVE alphaEnd(_)
        alphaEnd(p) ==
            IF notIdentifierWords(p) /\ consumeAlpha(p) THEN alphaEnd(p + 1) ELSE p
        \* this.text.slice(from, to) as a string
        slice(from, to) == join(SubSeq(text, from + 1, to), "")
    IN IF definitionContext
       THEN LET end == definitionNameEnd(pos)
            IN IF end > pos THEN [r |-> "name", name |-> slice(pos, end), pos |-> end]
               ELSE Null(end)
       ELSE IF ~consumeAlpha(pos) THEN Null(pos)
       ELSE LET end == digitEnd(text, alphaEnd(pos + 1))
            IN [r |-> "name", name |-> slice(pos, end), pos |-> end]

\* const value = ...; Body(value): the value is computed once, as the statement
\* of the source that assigns it to a local computes it once
With(value, Body(_)) == CHOOSE result \in {Body(v) : v \in {value}} : TRUE

RECURSIVE parseExpression(_, _), parseVariable(_, _, _)

\* parseExpression: the alternatives in the order of the source: parseInteger,
\* parseLen, parseMinus, parseArraylist, parseNull, parseFunccall,
\* parseVariable. parseString and parseFunction are left out: they return null
\* where no double quote and none of 入力, λ starts, and the texts of the model
\* hold none of them.
parseExpression(text, pos0) ==
    LET pos == consumeWhitespace(text, pos0, FALSE)
        \* if (!expression) expression = ...
        orElse(a, b) == With(a, LAMBDA r : IF r.r # "null" THEN r ELSE b)
        \* parseInt of a run of digits
        RECURSIVE parseInt(_)
        parseInt(digits) ==
            IF digits = <<>> THEN 0
            ELSE 10 * parseInt(SubSeq(digits, 1, Len(digits) - 1))
                    + (CHOOSE n \in 0..9 : ToString(n) = digits[Len(digits)])
        parseInteger ==
            LET end == digitEnd(text, pos)
            IN IF end = pos THEN Null(pos)
               ELSE IF startsWith(text, end, <<".">>) THEN SyntaxError("NoDecimals", end + 1)
               ELSE Node(NumberNode(parseInt(SubSeq(text, pos + 1, end))), end)
        \* parseNull: null or ?
        parseNull ==
            IF startsWith(text, pos, Words.null) THEN Node(NullNode, pos + Len(Words.null))
            ELSE IF startsWith(text, pos, <<"?">>) THEN Node(NullNode, pos + 1)
            ELSE Null(pos)
        parseMinus ==
            IF ~startsWith(text, pos, <<"-">>) THEN Null(pos)
            ELSE With(parseExpression(text, consumeWhitespace(text, pos + 1, FALSE)),
                      LAMBDA element :
                        IF element.r = "error" THEN element
                        ELSE IF element.r = "null"
                        THEN SyntaxError("MinusWithoutOperand", element.pos)
                        ELSE Node(MinusNode(element.node), element.pos))
        parseLen ==
            IF ~startsWith(text, pos, <<"|">>) THEN Null(pos)
            ELSE With(parseExpression(text, consumeWhitespace(text, pos + 1, FALSE)),
                      LAMBDA element :
                        IF element.r = "error" THEN element
                        ELSE IF element.r = "null"
                        THEN SyntaxError("LenWithoutOperand", element.pos)
                        ELSE LET p == consumeWhitespace(text, element.pos, FALSE)
                             IN IF startsWith(text, p, <<"|">>)
                                THEN Node(LenNode(element.node), p + 1)
                                ELSE SyntaxError("LenNotClosed", p))
        \* the while (true) of parseFunccall: an argument, then ) or a comma
        RECURSIVE parseArguments(_, _)
        parseArguments(from, args) ==
            With(parseExpression(text, from),
                 LAMBDA expression :
                    IF expression.r = "error" THEN expression
                    ELSE IF expression.r = "null"
                    THEN SyntaxError("ArgumentMissing", expression.pos)
                    ELSE LET p == consumeWhitespace(text, expression.pos, FALSE)
                             all == Append(args, expression.node)
                         IN IF startsWith(text, p, <<")">>) THEN Node(all, p + 1)
                            ELSE IF startsWith(text, p, <<",">>)
                            THEN parseArguments(consumeWhitespace(text, p + 1, FALSE), all)
                            ELSE SyntaxError("CallNotClosed", p))
        parseFunccall ==
            LET name == parseIdentifier(text, pos, FALSE)
            IN IF name.r = "null" THEN Null(pos)
               ELSE LET p == consumeWhitespace(text, name.pos, FALSE)
                    IN IF ~startsWith(text, p, <<"(">>) THEN Null(pos)
                       ELSE With(parseArguments(consumeWhitespace(text, p + 1, FALSE), <<>>),
                                 LAMBDA args :
                                    IF args.r = "error" THEN args
                                    ELSE Node(FuncCallNode(name.name, args.node), args.pos))
        \* the while (true) of parseArraylist; savedPos2 is the position after the [
        RECURSIVE parseElements(_, _, _)
        parseElements(from, elements, savedPos2) ==
            LET p == consumeWhitespace(text, from, TRUE)
            IN IF startsWith(text, p, <<"]">>) THEN Node(elements, p + 1)
               ELSE With(parseExpression(text, p),
                         LAMBDA expression :
                            IF expression.r = "error" THEN expression
                            ELSE IF expression.r = "null"
                            THEN SyntaxError("ElementMissing", expression.pos)
                            ELSE LET q == consumeWhitespace(text, expression.pos, TRUE)
                                     all == Append(elements, expression.node)
                                 IN IF startsWith(text, q, <<"]">>) THEN Node(all, q + 1)
                                    ELSE IF startsWith(text, q, <<",">>)
                                    THEN parseElements(q + 1, all, savedPos2)
                                    ELSE SyntaxError("ArrayNotClosed", savedPos2))
        parseArraylist ==
            IF ~startsWith(text, pos, <<"[">>) THEN Null(pos)
            ELSE With(parseElements(pos + 1, <<>>, pos + 1),
                      LAMBDA elements :
                        IF elements.r = "error" THEN elements
                        ELSE Node(ArrayNode(elements.node), elements.pos))
    IN With(orElse(parseInteger, orElse(parseLen, orElse(parseMinus, orElse(parseArraylist,
                orElse(parseNull, orElse(parseFunccall, parseVariable(text, pos, FALSE))))))),
            LAMBDA expression :
                IF expression.r = "node"
                THEN IF expression.pos < Len(text)
                        /\ text[expression.pos + 1] \in {"+", "-", "*", "/", "%"}
                     THEN SyntaxError("NoInfix", expression.pos + 1)
                     ELSE Node(expression.node,
                               consumeWhitespace(text, expression.pos, FALSE))
                ELSE IF expression.r = "error" THEN expression
                ELSE Null(pos))

\* parseVariable: the name, then the while (this.consume("[")) of the indices;
\* an index that is no expression is pushed as null ([t |-> "none"])
parseVariable(text, pos, definitionContext) ==
    LET RECURSIVE parseIndices(_, _)
        parseIndices(from, indices) ==
            IF ~startsWith(text, from, <<"[">>) THEN Node(indices, from)
            ELSE With(parseExpression(text, consumeWhitespace(text, from + 1, FALSE)),
                      LAMBDA index :
                        IF index.r = "error" THEN index
                        ELSE IF ~startsWith(text, index.pos, <<"]">>)
                        THEN SyntaxError("IndexNotClosed", index.pos)
                        ELSE parseIndices(index.pos + 1,
                                Append(indices, IF index.r = "null" THEN [t |-> "none"]
                                                ELSE index.node)))
        name == parseIdentifier(text, pos, definitionContext)
    IN IF name.r = "null" THEN Null(pos)
       ELSE With(parseIndices(name.pos, <<>>),
                 LAMBDA indices :
                    IF indices.r = "error" THEN indices
                    ELSE Node(VariableNode(name.name, indices.node), indices.pos))

RECURSIVE parseStatement(_, _), parseBlock(_, _)

\* parseBlock: after the opening brace, a block that does not close on the
\* line of its opening brace starts on the next line (consumeUntilEol); then
\* the while (this.pos < this.length) of the statements up to the closing brace
parseBlock(text, pos) ==
    LET savedPos == consumeWhitespace(text, pos, FALSE)
        \* a closing brace stands between p and the end of the line
        RECURSIVE closesOnSameLine(_)
        closesOnSameLine(p) ==
            IF p >= Len(text) \/ text[p + 1] = "\n" THEN FALSE
            ELSE IF text[p + 1] = "}" THEN TRUE
            ELSE closesOnSameLine(p + 1)
        blockStart ==
            IF closesOnSameLine(savedPos + 1) THEN savedPos + 1
            ELSE consumeUntilEol(text, savedPos + 1)
        RECURSIVE parseStatements(_, _)
        parseStatements(from, statements) ==
            IF from >= Len(text) THEN SyntaxError("BlockNotClosed", savedPos)
            ELSE LET p == consumeWhitespace(text, from, TRUE)
                 IN IF startsWith(text, p, <<"}">>) THEN Node(statements, p + 1)
                    ELSE With(parseStatement(text, p),
                              LAMBDA stmt :
                                IF stmt.r = "error" THEN stmt
                                ELSE parseStatements(stmt.pos, Append(statements, stmt.node)))
    IN IF ~startsWith(text, savedPos, <<"{">>) THEN Null(savedPos)
       ELSE parseStatements(consumeWhitespace(text, blockStart, FALSE), <<>>)

\* parseStatement: the productions in the order of the source (parseDoctest
\* is left out: it returns null where no >>> starts), then consumeEol
parseStatement(text, pos) ==
    LET savedPos == consumeWhitespace(text, pos, TRUE)
        \* if (!stmt) stmt = ...
        orElse(a, b) == With(a, LAMBDA r : IF r.r # "null" THEN r ELSE b)
        \* consumeCma: a comma if there is one, then the blanks
        consumeCma(p) ==
            consumeWhitespace(text, IF startsWith(text, p, <<",">>) THEN p + 1 ELSE p, FALSE)
        \* consumeEol: the blanks, and the line end if there is one; no error without
        consumeEol(from) ==
            LET p == consumeWhitespace(text, from, FALSE)
            IN IF p < Len(text) /\ text[p + 1] = "\n" THEN p + 1 ELSE p
        \* 以上, 以下, より大きい, より小さい, 以外, 未満, in the order parseIfStatement
        \* tries them
        OperatorWords ==
            <<[word |-> <<"MOTTE", "JOU">>, cmp |-> "ge"],
              [word |-> <<"MOTTE", "SHITA">>, cmp |-> "le"],
              [word |-> <<"YO", "RI", "OO", "KI", "II">>, cmp |-> "gt"],
              [word |-> <<"YO", "RI", "CHII", "SA", "II">>, cmp |-> "lt"],
              [word |-> <<"MOTTE", "GAI">>, cmp |-> "ne"],
              [word |-> <<"MI", "MAN">>, cmp |-> "lt2"]>>
        \* the comparison word at p, if there is one
        operatorAt(p) ==
            LET found == {i \in 1..Len(OperatorWords) :
                            startsWith(text, p, OperatorWords[i].word)}
            IN IF found = {} THEN [cmp |-> "", pos |-> p]
               ELSE LET i == CHOOSE k \in found : \A j \in found : k <= j
                    IN [cmp |-> OperatorWords[i].cmp, pos |-> p + Len(OperatorWords[i].word)]
        parseElseStatement(from) ==
            LET p == consumeWhitespace(text, from, TRUE)
            IN IF ~startsWith(text, p, Words.soudenakereba) THEN Null(from)
               ELSE With(parseBlock(text, consumeCma(p + Len(Words.soudenakereba))),
                         LAMBDA block :
                            IF block.r = "null"
                            THEN SyntaxError("ElseBlockMissing", block.pos)
                            ELSE block)
        \* the rest of parseIfStatement, after the two expressions
        parseIfBlocks(left, right) ==
            LET operator == operatorAt(consumeWhitespace(text, right.pos, FALSE))
                p == consumeWhitespace(text, operator.pos, FALSE)
            IN IF ~startsWith(text, p, Words.naraba) THEN SyntaxError("NarabaMissing", p)
               ELSE With(parseBlock(text, consumeCma(p + Len(Words.naraba))),
                         LAMBDA thenBlock :
                            IF thenBlock.r = "error" THEN thenBlock
                            ELSE IF thenBlock.r = "null"
                            THEN SyntaxError("ThenBlockMissing", thenBlock.pos)
                            ELSE With(parseElseStatement(thenBlock.pos),
                                      LAMBDA elseBlock :
                                        IF elseBlock.r = "error" THEN elseBlock
                                        ELSE Node(IfNode(left.node, operator.cmp, right.node,
                                                         thenBlock.node, elseBlock.r = "node",
                                                         IF elseBlock.r = "node"
                                                         THEN elseBlock.node ELSE <<>>),
                                                  elseBlock.pos)))
        parseIfStatement ==
            IF ~startsWith(text, savedPos, Words.moshi) THEN Null(savedPos)
            ELSE With(parseExpression(text, consumeCma(savedPos + Len(Words.moshi))),
                      LAMBDA left :
                        IF left.r = "error" THEN left
                        ELSE IF left.r = "null" THEN SyntaxError("CompareWhat", left.pos)
                        ELSE IF ~startsWith(text, left.pos, Words.ga)
                        THEN SyntaxError("GaMissing", left.pos)
                        ELSE With(parseExpression(text, consumeCma(left.pos + Len(Words.ga))),
                                  LAMBDA right :
                                    IF right.r = "error" THEN right
                                    ELSE IF right.r = "null"
                                    THEN SyntaxError("CompareWhat", right.pos)
                                    ELSE parseIfBlocks(left, right)))
        parseLoopStatement ==
            With(parseExpression(text, savedPos),
                 LAMBDA count :
                    IF count.r = "error" THEN count
                    ELSE IF count.r = "null" THEN Null(savedPos)
                    ELSE IF ~startsWith(text, count.pos, Words.kai) THEN Null(savedPos)
                    ELSE LET p == consumeCma(count.pos + Len(Words.kai))
                         IN IF ~startsWith(text, p, Words.kurikaesu)
                            THEN SyntaxError("KurikaesuMissing", p)
                            ELSE With(parseBlock(text, p + Len(Words.kurikaesu)),
                                      LAMBDA body :
                                        IF body.r = "error" THEN body
                                        ELSE IF body.r = "null"
                                        THEN SyntaxError("LoopBodyMissing", body.pos)
                                        ELSE Node(LoopNode(count.node, body.node), body.pos)))
        \* the expression of an assignment: it has to be there
        parseAssigned(from, Assigned(_)) ==
            With(parseExpression(text, from),
                 LAMBDA expression :
                    IF expression.r = "error" THEN expression
                    ELSE IF expression.r = "null"
                    THEN SyntaxError("ExpressionMissing", expression.pos)
                    ELSE Assigned(expression))
        \* parseAssignment: variable の末尾に e を 追加する, variable を 増やす / 減らす,
        \* variable を e とする, variable = e
        parseAssignment ==
            With(parseVariable(text, savedPos, TRUE),
                 LAMBDA variable :
                    LET p == consumeWhitespace(text, variable.pos, FALSE)
                        p1 == consumeWhitespace(text, p + 1, FALSE)
                    IN IF variable.r = "null" THEN Null(savedPos)
                       ELSE IF variable.r = "error" THEN variable
                       ELSE IF startsWith(text, p, Words.nomatsubini)
                       THEN parseAssigned(consumeCma(p + Len(Words.nomatsubini)),
                                LAMBDA expression :
                                    LET q1 == consumeWhitespace(text, expression.pos, FALSE)
                                        q2 == consumeCma(IF startsWith(text, q1, Words.wo)
                                                         THEN q1 + 1 ELSE q1)
                                        q3 == IF startsWith(text, q2, Words.tsuikasuru)
                                              THEN q2 + Len(Words.tsuikasuru) ELSE q2
                                    IN Node(AppendNode(variable.node, expression.node), q3))
                       ELSE IF startsWith(text, p, Words.wo)
                       THEN IF startsWith(text, p1, Words.fuyasu)
                            THEN Node(IncrementNode(variable.node), p1 + Len(Words.fuyasu))
                            ELSE IF startsWith(text, p1, Words.herasu)
                            THEN Node(DecrementNode(variable.node), p1 + Len(Words.herasu))
                            ELSE parseAssigned(p1,
                                    LAMBDA expression :
                                        LET q1 == consumeWhitespace(text, expression.pos, FALSE)
                                            q2 == IF startsWith(text, q1, Words.tosuru)
                                                  THEN q1 + Len(Words.tosuru) ELSE q1
                                        IN Node(AssignmentNode(variable.node, expression.node),
                                                q2))
                       ELSE IF startsWith(text, p, <<"=">>)
                       THEN parseAssigned(consumeWhitespace(text, p + 1, FALSE),
                                LAMBDA expression :
                                    Node(AssignmentNode(variable.node, expression.node),
                                         expression.pos))
                       ELSE Null(savedPos))
        \* parseReturn: e が答え, or an expression that ends its line
        parseReturn ==
            With(parseExpression(text, savedPos),
                 LAMBDA expression :
                    LET p == consumeWhitespace(text, expression.pos, FALSE)
                    IN IF expression.r = "error" THEN expression
                       ELSE IF expression.r = "null" THEN Null(savedPos)
                       ELSE IF startsWith(text, expression.pos, Words.gakotae)
                       THEN Node(ReturnNode(expression.node),
                                 expression.pos + Len(Words.gakotae))
                       ELSE IF p >= Len(text) \/ text[p + 1] = "\n"
                       THEN Node(ExpressionStatementNode(expression.node), p)
                       ELSE Null(savedPos))
        parseBreak ==
            IF startsWith(text, savedPos, Words.nukeru)
            THEN Node(BreakNode, savedPos + Len(Words.nukeru))
            ELSE Null(savedPos)
    IN With(orElse(parseIfStatement, orElse(parseLoopStatement, orElse(parseAssignment,
                orElse(parseReturn, parseBreak)))),
            LAMBDA stmt :
                IF stmt.r = "node" THEN Node(stmt.node, consumeEol(stmt.pos))
                ELSE IF stmt.r = "error" THEN stmt
                ELSE SyntaxError("UnknownStatement", savedPos))

\* parser.parse(text): normalize, then the while (this.pos < this.length) of
\* parseProgram: the statements of the ProgramNode, or the error thrown
parseProgram(source) ==
    LET text == normalize(source)
        RECURSIVE parseProgramStatements(_, _)
        parseProgramStatements(pos, statements) ==
            IF pos >= Len(text) THEN Node(statements, pos)
            ELSE With(parseStatement(text, pos),
                      LAMBDA stmt :
                        IF stmt.r = "error" THEN stmt
                        ELSE parseProgramStatements(consumeWhitespace(text, stmt.pos, TRUE),
                                                    Append(statements, stmt.node)))
    IN parseProgramStatements(consumeWhitespace(text, 0, TRUE), <<>>)

\* ------------------------------------------------- the programs evaluated
\* f = 入力 a に対し { x = 5; xを増やす; z = 1; xs[0] = 9; xsの末尾に4を追加する;
\*                    a[?] = 7; xs[1]を増やす }
\* x = 1; xs = [1, 2]; f(xs); y = |xs|
ProgFrameEffect ==
    <<AssignmentNode(Var("f"), FunctionNode(<<"a">>,
        <<AssignmentNode(Var("x"), NumberNode(5)),
          IncrementNode(Var("x")),
          AssignmentNode(Var("z"), NumberNode(1)),
          AssignmentNode(VariableNode("xs", <<NumberNode(0)>>), NumberNode(9)),
          AppendNode(Var("xs"), NumberNode(4)),
          AssignmentNode(VariableNode("a", <<NullNode>>), NumberNode(7)),
          IncrementNode(VariableNode("xs", <<NumberNode(1)>>))>>)),
      AssignmentNode(Var("x"), NumberNode(1)),
      AssignmentNode(Var("xs"), ArrayNode(<<NumberNode(1), NumberNode(2)>>)),
      ExpressionStatementNode(FuncCallNode("f", <<Var("xs")>>)),
      AssignmentNode(Var("y"), LenNode(Var("xs")))>>

\* g = 入力 n に対し { h(n)が答え };  h = 入力 n に対し { -nが答え }
\* k = 1; r = 入力 a に対し { kが答え }; k = 2; y = g(2); w = r(0)
ProgCallSite ==
    <<AssignmentNode(Var("g"), FunctionNode(<<"n">>,
        <<ReturnNode(FuncCallNode("h", <<Var("n")>>))>>)),
      AssignmentNode(Var("h"), FunctionNode(<<"n">>,
        <<ReturnNode(MinusNode(Var("n")))>>)),
      AssignmentNode(Var("k"), NumberNode(1)),
      AssignmentNode(Var("r"), FunctionNode(<<"a">>, <<ReturnNode(Var("k"))>>)),
      AssignmentNode(Var("k"), NumberNode(2)),
      AssignmentNode(Var("y"), FuncCallNode("g", <<NumberNode(2)>>)),
      AssignmentNode(Var("w"), FuncCallNode("r", <<NumberNode(0)>>))>>

\* total = 入力 n に対し { もし n が 0 ならば { 0が答え }
\*                         m = n; mを減らす; t = total(m); n回くり返す { tを増やす }; tが答え }
\* y = total(n)
ProgRecursive(n) ==
    <<AssignmentNode(Var("total"), FunctionNode(<<"n">>,
        <<IfNode(Var("n"), "", NumberNode(0), <<ReturnNode(NumberNode(0))>>, FALSE, <<>>),
          AssignmentNode(Var("m"), Var("n")),
          DecrementNode(Var("m")),
          AssignmentNode(Var("t"), FuncCallNode("total", <<Var("m")>>)),
          LoopNode(Var("n"), <<IncrementNode(Var("t"))>>),
          ReturnNode(Var("t"))>>)),
      AssignmentNode(Var("y"), FuncCallNode("total", <<NumberNode(n)>>))>>

\* mk = 入力 a に対し { t = 7; 入力 b に対し { tが答え } が答え }
\* f = mk(0); y = f(0)
ProgDefinitionSite ==
    <<AssignmentNode(Var("mk"), FunctionNode(<<"a">>,
        <<AssignmentNode(Var("t"), NumberNode(7)),
          ReturnNode(FunctionNode(<<"b">>, <<ReturnNode(Var("t"))>>))>>)),
      AssignmentNode(Var("f"), FuncCallNode("mk", <<NumberNode(0)>>)),
      AssignmentNode(Var("y"), FuncCallNode("f", <<NumberNode(0)>>))>>

\* f = 入力 n に対し { 2回くり返す { もし n が 1 ならば { ?回くり返す { nが答え } }
\*                                   nを増やす }; -1が答え }
\* g = 入力 a に対し { a = 1 }
\* y = f(n); z = g(0)
ProgReturn(n) ==
    <<AssignmentNode(Var("f"), FunctionNode(<<"n">>,
        <<LoopNode(NumberNode(2),
            <<IfNode(Var("n"), "", NumberNode(1),
                <<LoopNode(NullNode, <<ReturnNode(Var("n"))>>)>>, FALSE, <<>>),
              IncrementNode(Var("n"))>>),
          ReturnNode(MinusNode(NumberNode(1)))>>)),
      AssignmentNode(Var("g"), FunctionNode(<<"a">>,
        <<AssignmentNode(Var("a"), NumberNode(1))>>)),
      AssignmentNode(Var("y"), FuncCallNode("f", <<NumberNode(n)>>)),
      AssignmentNode(Var("z"), FuncCallNode("g", <<NumberNode(0)>>))>>

\* x = n; c = 0; x回くり返す { xを増やす; cを増やす }; d = 1   (testParseLoopWithEmptyLines)
ProgCountedLoop(n) ==
    <<AssignmentNode(Var("x"), NumberNode(n)),
      AssignmentNode(Var("c"), NumberNode(0)),
      LoopNode(Var("x"), <<IncrementNode(Var("x")), IncrementNode(Var("c"))>>),
      AssignmentNode(Var("d"), NumberNode(1))>>

\* x = -n; c = 0; x回くり返す { cを増やす }; d = 1
ProgNegativeCount(n) ==
    <<AssignmentNode(Var("x"), MinusNode(NumberNode(n))),
      AssignmentNode(Var("c"), NumberNode(0)),
      LoopNode(Var("x"), <<IncrementNode(Var("c"))>>),
      AssignmentNode(Var("d"), NumberNode(1))>>

\* y = 0; ?回くり返す { y = 1; 2回くり返す { y = 0 } }; d = 1   (testInfiniteLoop)
ProgInfiniteLoop ==
    <<AssignmentNode(Var("y"), NumberNode(0)),
      LoopNode(NullNode,
        <<AssignmentNode(Var("y"), NumberNode(1)),
          LoopNode(NumberNode(2), <<AssignmentNode(Var("y"), NumberNode(0))>>)>>),
      AssignmentNode(Var("d"), NumberNode(1))>>

\* x = n; xs = [n, 5]; w = 7; xを増やす; xs[0]を増やす; a = x; b = xs[0]
\* xを減らす; xs[0]を減らす     (testParseIncrement .. testParseDecrementElement)
ProgIncDec(n) ==
    <<AssignmentNode(Var("x"), NumberNode(n)),
      AssignmentNode(Var("xs"), ArrayNode(<<NumberNode(n), NumberNode(5)>>)),
      AssignmentNode(Var("w"), NumberNode(7)),
      IncrementNode(Var("x")),
      IncrementNode(VariableNode("xs", <<NumberNode(0)>>)),
      AssignmentNode(Var("a"), Var("x")),
      AssignmentNode(Var("b"), VariableNode("xs", <<NumberNode(0)>>)),
      DecrementNode(Var("x")),
      DecrementNode(VariableNode("xs", <<NumberNode(0)>>))>>

\* m = [[n, 5]]; m[0][0]を増やす; a = m[0][0]; m[0][0]を減らす
ProgIncDecNested(n) ==
    <<AssignmentNode(Var("m"), ArrayNode(<<ArrayNode(<<NumberNode(n), NumberNode(5)>>)>>)),
      IncrementNode(VariableNode("m", <<NumberNode(0), NumberNode(0)>>)),
      AssignmentNode(Var("a"), VariableNode("m", <<NumberNode(0), NumberNode(0)>>)),
      DecrementNode(VariableNode("m", <<NumberNode(0), NumberNode(0)>>))>>

\* the values that are not numbers: [1, 1], ?, 入力 a に対し { }
NonNumbers ==
    {ArrayNode(<<NumberNode(1), NumberNode(1)>>), NullNode, FunctionNode(<<"a">>, <<>>)}
IncDecTargets == {Var("x"), VariableNode("xs", <<NumberNode(0)>>)}

\* w = 7; x = e; xs = [e]; target を増やす (or を減らす); d = 1
\* (testParseIncrementArray / testParseDecrementArray)
ProgIncNonNumber(e, target, dec) ==
    <<AssignmentNode(Var("w"), NumberNode(7)),
      AssignmentNode(Var("x"), e),
      AssignmentNode(Var("xs"), ArrayNode(<<e>>)),
      IF dec THEN DecrementNode(target) ELSE IncrementNode(target),
      AssignmentNode(Var("d"), NumberNode(1))>>

\* the operators of IfNode
Operators == {"", "ge", "le", "gt", "lt", "ne", "lt2"}

\* x = a; y = 0; もし x が 1 <cmp> ならば { y = 1 } そうでなければ { y = 2 }; d = 1
\* (without the else block when hasElse is false; testParseIfStatement .. )
ProgIf(a, cmp, hasElse) ==
    <<AssignmentNode(Var("x"), NumberNode(a)),
      AssignmentNode(Var("y"), NumberNode(0)),
      IfNode(Var("x"), cmp, NumberNode(1),
             <<AssignmentNode(Var("y"), NumberNode(1))>>, hasElse,
             IF hasElse THEN <<AssignmentNode(Var("y"), NumberNode(2))>> ELSE <<>>),
      AssignmentNode(Var("d"), NumberNode(1))>>

\* xs = [10, 20, 30]; m = [[1, 2], [3, 4]]; y = xs[i]; z = m[1][i]; d = 1
\* (testParseVariableIndexError, testParseVariableIndex2)
ProgIndexRead(i) ==
    <<AssignmentNode(Var("xs"), ArrayNode(<<NumberNode(10), NumberNode(20), NumberNode(30)>>)),
      AssignmentNode(Var("m"), ArrayNode(<<ArrayNode(<<NumberNode(1), NumberNode(2)>>),
                                          ArrayNode(<<NumberNode(3), NumberNode(4)>>)>>)),
      AssignmentNode(Var("y"), VariableNode("xs", <<NumberNode(i)>>)),
      AssignmentNode(Var("z"), VariableNode("m", <<NumberNode(1), NumberNode(i)>>)),
      AssignmentNode(Var("d"), NumberNode(1))>>

\* xs = [10, 20, 30]; y = xs[-i]; d = 1
ProgIndexReadNegative(i) ==
    <<AssignmentNode(Var("xs"), ArrayNode(<<NumberNode(10), NumberNode(20), NumberNode(30)>>)),
      AssignmentNode(Var("y"), VariableNode("xs", <<MinusNode(NumberNode(i))>>)),
      AssignmentNode(Var("d"), NumberNode(1))>>

\* the append of v to target: target の末尾に v を追加する, or target[?] = v
AppendForm(stmt, name, indices, v) ==
    IF stmt THEN AppendNode(VariableNode(name, indices), NumberNode(v))
    ELSE AssignmentNode(VariableNode(name, indices \o <<NullNode>>), NumberNode(v))

\* xs = [1, 2, 3]; xs[?] = v (or xsの末尾にvを追加する); y = |xs|
ProgAppend(stmt, v) ==
    <<AssignmentNode(Var("xs"), ArrayNode(<<NumberNode(1), NumberNode(2), NumberNode(3)>>)),
      AppendForm(stmt, "xs", <<>>, v),
      AssignmentNode(Var("y"), LenNode(Var("xs")))>>

\* m = [[1, 2]]; m[0][?] = v (or m[0]の末尾にvを追加する); y = |m[0]|
ProgAppendNested(stmt, v) ==
    <<AssignmentNode(Var("m"), ArrayNode(<<ArrayNode(<<NumberNode(1), NumberNode(2)>>)>>)),
      AppendForm(stmt, "m", <<NumberNode(0)>>, v),
      AssignmentNode(Var("y"), LenNode(VariableNode("m", <<NumberNode(0)>>)))>>

\* the values that are not arrays: 5, ?, 入力 a に対し { }
NonArrays == {NumberNode(5), NullNode, FunctionNode(<<"a">>, <<>>)}

\* x = e; xの末尾に1を追加する; d = 1
ProgAppendNonArray(e) ==
    <<AssignmentNode(Var("x"), e),
      AppendNode(Var("x"), NumberNode(1)),
      AssignmentNode(Var("d"), NumberNode(1))>>

\* xs = [10, 20, 30]; y = xs[?]; d = 1
ProgNullIndexRead ==
    <<AssignmentNode(Var("xs"), ArrayNode(<<NumberNode(10), NumberNode(20), NumberNode(30)>>)),
      AssignmentNode(Var("y"), VariableNode("xs", <<NullNode>>)),
      AssignmentNode(Var("d"), NumberNode(1))>>

\* x = a; >>> x / b; d = 1      (testParseDoctestPass, testParseDoctestFail)
ProgDocTest(a, b) ==
    <<AssignmentNode(Var("x"), NumberNode(a)),
      TestNode(Var("x"), NumberNode(b)),
      AssignmentNode(Var("d"), NumberNode(1))>>

\* xs = [1, 2]; >>> xs / [1, b]; d = 1      (the source of testParseDoctestPass2)
ProgDocTestArray(b) ==
    <<AssignmentNode(Var("xs"), ArrayNode(<<NumberNode(1), NumberNode(2)>>)),
      TestNode(Var("xs"), ArrayNode(<<NumberNode(1), NumberNode(b)>>)),
      AssignmentNode(Var("d"), NumberNode(1))>>

\* xs = [1, 2]; >>> xs / xs; >>> ? / ?; d = 1
ProgDocTestSame ==
    <<AssignmentNode(Var("xs"), ArrayNode(<<NumberNode(1), NumberNode(2)>>)),
      TestNode(Var("xs"), Var("xs")),
      TestNode(NullNode, NullNode),
      AssignmentNode(Var("d"), NumberNode(1))>>

\* the values that are not functions: 5, ?, []
NonFunctions == {NumberNode(5), NullNode, ArrayNode(<<>>)}

\* f = e; y = f(0); d = 1
ProgCallNonFunction(e) ==
    <<AssignmentNode(Var("f"), e),
      AssignmentNode(Var("y"), FuncCallNode("f", <<NumberNode(0)>>)),
      AssignmentNode(Var("d"), NumberNode(1))>>

\* the calls that cannot be made: of a name that is not bound, with fewer
\* arguments than parameters, with more
BadCalls ==
    {FuncCallNode("u", <<FuncCallNode("p", <<Var("xs")>>)>>),
     FuncCallNode("f", <<FuncCallNode("p", <<Var("xs")>>)>>),
     FuncCallNode("f", <<FuncCallNode("p", <<Var("xs")>>), NumberNode(0), NumberNode(0)>>)}

\* xs = [1]; p = 入力 a に対し { aの末尾に1を追加する; aを増やす?; 0が答え }
\* f = 入力 a, b に対し { 0が答え }; h = 入力 a に対し { y = <call>; 0が答え }
\* y = <call> (inside false) or w = h(0) (inside true); d = 1
\* the argument p(xs) of the call appends to xs and counts an append
ProgBadCall(call, inside) ==
    <<AssignmentNode(Var("xs"), ArrayNode(<<NumberNode(1)>>)),
      AssignmentNode(Var("p"), FunctionNode(<<"a">>,
        <<AppendNode(Var("a"), NumberNode(1)), ReturnNode(NumberNode(0))>>)),
      AssignmentNode(Var("f"), FunctionNode(<<"a", "b">>, <<ReturnNode(NumberNode(0))>>)),
      AssignmentNode(Var("h"), FunctionNode(<<"a">>,
        <<AssignmentNode(Var("y"), call), ReturnNode(NumberNode(0))>>)),
      IF inside THEN AssignmentNode(Var("w"), FuncCallNode("h", <<NumberNode(0)>>))
      ELSE AssignmentNode(Var("y"), call),
      AssignmentNode(Var("d"), NumberNode(1))>>

\* the programs evaluated; those no property names are local to the set
Programs ==
    LET
        \* b = 入力 n に対し { くり返しを抜ける }
        \* c = 0; 2回くり返す { cを増やす; b(0); cを増やす }; d = 1
        ProgBreakInFunction ==
            <<AssignmentNode(Var("b"), FunctionNode(<<"n">>, <<BreakNode>>)),
              AssignmentNode(Var("c"), NumberNode(0)),
              LoopNode(NumberNode(2),
                <<IncrementNode(Var("c")),
                  ExpressionStatementNode(FuncCallNode("b", <<NumberNode(0)>>)),
                  IncrementNode(Var("c"))>>),
              AssignmentNode(Var("d"), NumberNode(1))>>
        \* y = 0; 3回くり返す { もし y が n 以上ならば { もし y が n ならば { くり返しを抜ける } }
        \*                      yを増やす }; d = 1         (testLoopBreak)
        ProgLoopBreak(n) ==
            <<AssignmentNode(Var("y"), NumberNode(0)),
              LoopNode(NumberNode(MaxCount + 1),
                <<IfNode(Var("y"), "ge", NumberNode(n),
                    <<IfNode(Var("y"), "", NumberNode(n), <<BreakNode>>, TRUE, <<>>)>>, FALSE, <<>>),
                  IncrementNode(Var("y"))>>),
              AssignmentNode(Var("d"), NumberNode(1))>>
        \* x = 1; xが答え; d = 1
        ProgTopLevelReturn ==
            <<AssignmentNode(Var("x"), NumberNode(1)),
              ReturnNode(Var("x")),
              AssignmentNode(Var("d"), NumberNode(1))>>
        \* d = 0; くり返しを抜ける; d = 1
        ProgTopLevelBreak ==
            <<AssignmentNode(Var("d"), NumberNode(0)),
              BreakNode,
              AssignmentNode(Var("d"), NumberNode(1))>>
        \* xs = [1, 2]; c = 0; xs回くり返す { cを増やす }; d = 1
        ProgArrayCount ==
            <<AssignmentNode(Var("xs"), ArrayNode(<<NumberNode(1), NumberNode(2)>>)),
              AssignmentNode(Var("c"), NumberNode(0)),
              LoopNode(Var("xs"), <<IncrementNode(Var("c"))>>),
              AssignmentNode(Var("d"), NumberNode(1))>>
        \* xs = [10, 20, 30]; m = [[1, 2], [3, 4]]; xs[i] = 9; m[i][0] = 8; d = 1
        ProgIndexWrite(i) ==
            <<AssignmentNode(Var("xs"), ArrayNode(<<NumberNode(10), NumberNode(20), NumberNode(30)>>)),
              AssignmentNode(Var("m"), ArrayNode(<<ArrayNode(<<NumberNode(1), NumberNode(2)>>),
                                                  ArrayNode(<<NumberNode(3), NumberNode(4)>>)>>)),
              AssignmentNode(VariableNode("xs", <<NumberNode(i)>>), NumberNode(9)),
              AssignmentNode(VariableNode("m", <<NumberNode(i), NumberNode(0)>>), NumberNode(8)),
              AssignmentNode(Var("d"), NumberNode(1))>>
        \* s = "ab"; sの末尾にvを追加する; y = |s|
        ProgStringAppend(v) ==
            <<AssignmentNode(Var("s"), StringNode(1, <<97, 98>>)),
              AppendNode(Var("s"), NumberNode(v)),
              AssignmentNode(Var("y"), LenNode(Var("s")))>>
        \* s = "ab"; t = "c"; y = s[1]; z = |t|
        ProgStringRead ==
            <<AssignmentNode(Var("s"), StringNode(1, <<97, 98>>)),
              AssignmentNode(Var("t"), StringNode(2, <<99>>)),
              AssignmentNode(Var("y"), VariableNode("s", <<NumberNode(1)>>)),
              AssignmentNode(Var("z"), LenNode(Var("t")))>>
        \* xs = [10]; xs[0][0] = 8; d = 1
        ProgIndexWriteInNumber ==
            <<AssignmentNode(Var("xs"), ArrayNode(<<NumberNode(10)>>)),
              AssignmentNode(VariableNode("xs", <<NumberNode(0), NumberNode(0)>>), NumberNode(8)),
              AssignmentNode(Var("d"), NumberNode(1))>>
        \* x = 0; もし x が 0 ならば { } そうでなければ { }; 1回くり返す { };
        \* f = 入力 a に対し { }; 1回くり返す { もし x が 1 ならば { } }
        ProgEmptyBlocks ==
            <<AssignmentNode(Var("x"), NumberNode(0)),
              IfNode(Var("x"), "", NumberNode(0), <<>>, TRUE, <<>>),
              LoopNode(NumberNode(1), <<>>),
              AssignmentNode(Var("f"), FunctionNode(<<"a">>, <<>>)),
              LoopNode(NumberNode(1), <<IfNode(Var("x"), "", NumberNode(1), <<>>, FALSE, <<>>)>>)>>
        \* the values stored into the array of a string: 99, ?, [1]
        StoredValues == {NumberNode(99), NullNode, ArrayNode(<<NumberNode(1)>>)}
        \* the statements that store e into the array s: s[0] = e, s[?] = e,
        \* sの末尾にeを追加する
        StoreForms(e) ==
            {AssignmentNode(VariableNode("s", <<NumberNode(0)>>), e),
             AssignmentNode(VariableNode("s", <<NullNode>>), e),
             AppendNode(Var("s"), e)}
        \* s = "ab"; <store>; s[1]を増やす; s[1]を減らす; y = |s|
        ProgStringStore(store) ==
            <<AssignmentNode(Var("s"), StringNode(1, <<97, 98>>)),
              store,
              IncrementNode(VariableNode("s", <<NumberNode(1)>>)),
              DecrementNode(VariableNode("s", <<NumberNode(1)>>)),
              AssignmentNode(Var("y"), LenNode(Var("s")))>>
        \* 2回くり返す { s = "ab"; sの末尾に99を追加する; xs = [97, 98]; xsの末尾に99を追加する }
        \* y = |s|; z = |xs|
        ProgStringLoop ==
            <<LoopNode(NumberNode(2),
                <<AssignmentNode(Var("s"), StringNode(1, <<97, 98>>)),
                  AppendNode(Var("s"), NumberNode(99)),
                  AssignmentNode(Var("xs"), ArrayNode(<<NumberNode(97), NumberNode(98)>>)),
                  AppendNode(Var("xs"), NumberNode(99))>>),
              AssignmentNode(Var("y"), LenNode(Var("s"))),
              AssignmentNode(Var("z"), LenNode(Var("xs")))>>
        \* f = 入力 a に対し { s = "ab"; s[0] = a; s[1]を増やす; sが答え }
        \* x = f(1); y = f(2)
        ProgStringCall ==
            <<AssignmentNode(Var("f"), FunctionNode(<<"a">>,
                <<AssignmentNode(Var("s"), StringNode(1, <<97, 98>>)),
                  AssignmentNode(VariableNode("s", <<NumberNode(0)>>), Var("a")),
                  IncrementNode(VariableNode("s", <<NumberNode(1)>>)),
                  ReturnNode(Var("s"))>>)),
              AssignmentNode(Var("x"), FuncCallNode("f", <<NumberNode(1)>>)),
              AssignmentNode(Var("y"), FuncCallNode("f", <<NumberNode(2)>>))>>
    IN
    {ProgEmptyBlocks, ProgFrameEffect, ProgCallSite, ProgDefinitionSite, ProgBreakInFunction,
     ProgTopLevelReturn, ProgTopLevelBreak, ProgArrayCount, ProgInfiniteLoop,
     ProgNullIndexRead, ProgDocTestSame, ProgStringRead, ProgIndexWriteInNumber,
     ProgStringLoop, ProgStringCall}
    \cup {ProgStringAppend(v) : v \in 0..MaxCount}
    \cup {ProgStringStore(store) : store \in UNION {StoreForms(e) : e \in StoredValues}}
    \cup {ProgBadCall(call, inside) : call \in BadCalls, inside \in BOOLEAN}
    \cup {ProgDocTest(a, b) : a, b \in 0..MaxCount}
    \cup {ProgDocTestArray(b) : b \in 1..MaxCount}
    \cup {ProgRecursive(n) : n \in 0..MaxCount}
    \cup {ProgReturn(n) : n \in 0..MaxCount}
    \cup {ProgLoopBreak(n) : n \in 0..(MaxCount + 2)}
    \cup {ProgCountedLoop(n) : n \in 0..MaxCount}
    \cup {ProgNegativeCount(n) : n \in 1..MaxCount}
    \cup {ProgIncDec(n) : n \in 0..MaxCount}
    \cup {ProgIncDecNested(n) : n \in 0..MaxCount}
    \cup {ProgIf(a, cmp, hasElse) : a \in 0..MaxCount, cmp \in Operators,
                                     hasElse \in BOOLEAN}
    \cup {ProgIndexRead(i) : i \in 0..(MaxCount + 3)}
    \cup {ProgIndexReadNegative(i) : i \in 1..MaxCount}
    \cup {ProgIndexWrite(i) : i \in 0..(MaxCount + 1)}
    \cup {ProgAppend(stmt, v) : stmt \in BOOLEAN, v \in 0..MaxCount}
    \cup {ProgAppendNested(stmt, v) : stmt \in BOOLEAN, v \in 0..MaxCount}
    \cup {ProgAppendNonArray(e) : e \in NonArrays}
    \cup {ProgCallNonFunction(e) : e \in NonFunctions}
    \cup {ProgIncNonNumber(e, t, dec) : e \in NonNumbers, t \in IncDecTargets,
                                        dec \in BOOLEAN}

\* ------------------------------------------------------------------- Next
\* one step of the evaluation
Step ==
    \/ ProgramNodeEvaluate
    \/ BlockNodeEvaluate
    \/ NullNodeEvaluate
    \/ NumberNodeEvaluate
    \/ FunctionNodeEvaluate
    \/ StringNodeEvaluate
    \/ MinusNodeEvaluate
    \/ MinusNodeApply
    \/ LenNodeEvaluate
    \/ LenNodeApply
    \/ ArrayNodeEvaluate
    \/ ArrayNodeNew
    \/ VariableNodeEvaluate
    \/ VariableNodeIndex
    \/ VariableNodeIndexed
    \/ FuncCallNodeEvaluate
    \/ FuncCallNodeInvoke
    \/ FuncCallNodeReturn
    \/ AssignmentNodeEvaluate
    \/ VariableNodeEvaluateWith
    \/ VariableNodeWriteIndex
    \/ VariableNodeWriteIndexed
    \/ IncrementNodeEvaluate
    \/ IncrementNodeApply
    \/ IncrementNodeCount
    \/ DecrementNodeEvaluate
    \/ DecrementNodeApply
    \/ DecrementNodeCount
    \/ AppendNodeEvaluate
    \/ AppendNodeCheck
    \/ AppendNodePush
    \/ IfNodeEvaluate
    \/ IfNodeBranch
    \/ LoopNodeEvaluate
    \/ LoopNodeStart
    \/ LoopNodeWhile
    \/ LoopNodeFor
    \/ BreakNodeEvaluate
    \/ ReturnNodeEvaluate
    \/ ReturnNodeThrow
    \/ ExpressionStatementNodeEvaluate
    \/ ExpressionStatementNodePrint
    \/ TestNodeEvaluate
    \/ TestNodeCompare

Next ==
    \/ \E p \in Programs, timeout \in 0..MaxBudget : exec(p, timeout)
    \/ RequestStop
    \/ Tick
    \/ Step

Spec == Init /\ [][Next]_vars

\* the host runs the evaluation to its end, and its clock advances
FairSpec == Spec /\ WF_vars(Step) /\ WF_vars(Tick)

\* the same ProgramNode is evaluated a second time
NextTwice ==
    \/ Next
    \/ evaluateAgain

SpecTwice == Init /\ [][NextTwice]_vars

\* the parsed ProgramNode is emitted before and after its evaluation, with no
\* base indent and with the "|" of testEmitJs / testEmitPy
SpecEmit ==
    Init /\ [][\/ Next
               \/ \E lang \in {"js", "py"}, indent \in {"", "|"} : emit(lang, indent)]_vars

\* ------------------------------------------------------ exec of a text
\* NanakoRuntime.exec(code, env, timeout): parser.parse(code), start(timeout),
\* program.evaluate(this, env); an error of the parser leaves exec before start
execCode(c, timeout) ==
    /\ status = "new"
    /\ code' = c
    /\ \E program \in {parseProgram(c)} :
       IF program.r = "error"
       THEN /\ status' = "failed"
            /\ raised' = NanakoError(program.msg)
            /\ UNCHANGED <<prog, kont, heap, rt>>
       ELSE /\ status' = "running"
            /\ raised' = raised
            /\ prog' = program.node
            /\ rt' = start(rt, timeout, now)
            /\ kont' = <<[op |-> "program", stmts |-> program.node, env |-> 1]>>
            /\ heap' = parse(program.node)
    /\ UNCHANGED <<vals, envs, now, out, first, emitted>>

\* the targets of an assignment: a name (x, 変数), and an element of the array
\* of a name
Targets == [name : {<<"x">>, <<"HEN", "SUU">>}, indexed : BOOLEAN]

\* name = [0] when the target is an element; then the assignment of n, in one
\* of the ways an assignment is written: v = n ("eq"), vをnとする ("wo"),
\* v を n とする ("woBlanks"), and vをnとする with a full-width digit
\* ("woFullWidth")
AssignmentSource(target, form, n) ==
    (IF target.indexed THEN target.name \o <<" ", "=", " ", "[", "0", "]", "\n">> ELSE <<>>)
      \o target.name \o (IF target.indexed THEN <<"[", "0", "]">> ELSE <<>>)
      \o (CASE form = "eq" -> <<" ", "=", " ", ToString(n)>>
            [] form = "wo" -> <<"WO", ToString(n), "TO", "SU", "RU">>
            [] form = "woBlanks" -> <<" ", "WO", " ", ToString(n), " ", "TO", "SU", "RU">>
            [] form = "woFullWidth" -> <<"WO", "FW" \o ToString(n), "TO", "SU", "RU">>)
      \o <<"\n">>

\* the statements written into a block: xを増やす, y = 1, and x? which is no
\* statement of the grammar (testParseStatementError)
WellFormed == {<<"x", "WO", "FU", "YA", "SU">>, <<"y", " ", "=", " ", "1">>}
Malformed == {<<"x", "?">>}
\* the lists of one or two of these statements
StatementLists ==
    {<<a>> : a \in WellFormed \cup Malformed}
        \cup {<<a, b>> : a, b \in WellFormed \cup Malformed}

\* x = 0 / <header> <block> / d = 1
\* the headers of a block: 1回くり返す ("loop"), もし x が 0 ならば ("if")
\* the layouts of a block:
\*   "oneLine"    { s1 }                  (one statement)
\*   "ownLines"   { / s1 / s2 / }         (/ is a line end)
\*   "braceLine"  { s1 / s2 / }
BlockSource(header, layout, stmts) ==
    LET headerText ==
            IF header = "loop" THEN <<"1">> \o Words.kai \o Words.kurikaesu
            ELSE Words.moshi \o <<" ", "x", " ">> \o Words.ga \o <<" ", "0", " ">>
                    \o Words.naraba
        rest == IF Len(stmts) = 2 THEN <<" ", " ">> \o stmts[2] \o <<"\n">> ELSE <<>>
        blockText ==
            CASE layout = "oneLine" -> <<"{", " ">> \o stmts[1] \o <<" ", "}">>
              [] layout = "ownLines" ->
                    <<"{", "\n", " ", " ">> \o stmts[1] \o <<"\n">> \o rest \o <<"}">>
              [] layout = "braceLine" ->
                    <<"{", " ">> \o stmts[1] \o <<"\n">> \o rest \o <<"}">>
    IN <<"x", " ", "=", " ", "0", "\n">> \o headerText \o <<" ">>
        \o blockText \o <<"\n", "d", " ", "=", " ", "1", "\n">>

\* the statements one to a line
ProgramSource(stmts) ==
    IF Len(stmts) = 1 THEN stmts[1] \o <<"\n">>
    ELSE stmts[1] \o <<"\n">> \o stmts[2] \o <<"\n">>

BlockCases ==
    {c \in [header : {"loop", "if"}, layout : {"oneLine", "ownLines", "braceLine"},
             stmts : StatementLists] :
        c.layout = "oneLine" => Len(c.stmts) = 1}

Sources ==
    {AssignmentSource(target, form, n) :
        target \in Targets, form \in {"eq", "wo", "woBlanks", "woFullWidth"},
        n \in 0..MaxCount}
    \cup {BlockSource(c.header, c.layout, c.stmts) : c \in BlockCases}
    \cup {ProgramSource(stmts) : stmts \in StatementLists}

\* exec is handed a text, or a program as before
SpecParse ==
    Init /\ [][\/ \E c \in Sources, timeout \in 0..MaxBudget : execCode(c, timeout)
               \/ Next]_vars

\* ------------------------------------------------------------- properties
\* the top-level env binds name to v
Bound(name, v) == name \in DOMAIN envs[1] /\ envs[1][name] = v

Finished(p) == status = "done" /\ prog = p
Failed(p) == status = "failed" /\ prog = p
Cancelled == status = "failed"
                /\ raised \in {NanakoError("ManuallyStopped"), NanakoError("Timeout")}

\* the positions in k of the function calls whose body is being evaluated
PendingCalls(k) == {i \in 1..Len(k) : k[i].op = "callret"}
PendingLoops(k) == {i \in 1..Len(k) : k[i].op \in {"for", "while"}}
Nearest(S) == CHOOSE i \in S : \A j \in S : i <= j
\* the evaluation, and not the clock or the stop button, takes the step
Stepped == kont' # kont

\* C1: a call evaluates the body in a new env: while a call is pending, and when
\* it returns, every name of the caller's env is bound to the value it had (the
\* body's assignments, increments and new names do not reach it); the new env
\* binds the caller's names to the very same values (the same NanakoArray
\* objects), and neither the call nor the return touches an array, so what the
\* body did to an array of the caller is what the caller finds.
C1_FrameEffect ==
    /\ [][/\ \A i \in PendingCalls(kont) :
                kont[i].env <= Len(envs') => envs'[kont[i].env] = envs[kont[i].env]
          /\ Running("call") /\ Stepped =>
                /\ heap' = heap
                /\ \A n \in DOMAIN envs[top.env] \ Range(top.func.params) :
                      envs'[kont'[1].env][n] = envs[top.env][n]
          /\ (Running("callret") \/ Running("return")) /\ Stepped => heap' = heap]_vars
    /\ [](Finished(ProgFrameEffect) =>
            /\ Bound("x", IntV(1))
            /\ "z" \notin DOMAIN envs[1]
            /\ heap[envs[1]["xs"].r].elements = <<IntV(9), IntV(3), IntV(4), IntV(7)>>
            /\ Bound("y", IntV(4)))
    /\ [](Failed(ProgFrameEffect) => Cancelled)

C1_Witness ==
    /\ Finished(ProgFrameEffect)
    /\ Bound("x", IntV(1))
    /\ heap[1].elements[1] = IntV(9)
    /\ Len(heap[1].elements) = 4

\* C2: names in a body are resolved at the call site: the body evaluated is the
\* one of the function the callee name is bound to in the caller's env at the
\* call, and the body's env binds exactly the caller's names of that moment and
\* the parameters; so a function calls itself and a peer assigned after it, reads
\* the caller's current value of a name, and finds no name of its definition site.
C2_CallSiteResolution ==
    /\ [][Running("call") /\ Stepped =>
            /\ kont'[1] = BlockFrame(envs[top.env][top.name].body, kont'[1].env)
            /\ DOMAIN envs'[kont'[1].env]
                  = DOMAIN envs[top.env] \cup Range(top.func.params)
            /\ \A n \in DOMAIN envs[top.env] \ Range(top.func.params) :
                  envs'[kont'[1].env][n] = envs[top.env][n]]_vars
    /\ [](Finished(ProgCallSite) => Bound("y", IntV(0 - 2)) /\ Bound("w", IntV(2)))
    /\ [](Failed(ProgCallSite) => Cancelled)
    /\ [](\A n \in 0..MaxCount :
            /\ Finished(ProgRecursive(n)) => Bound("y", IntV((n * (n + 1)) \div 2))
            /\ Failed(ProgRecursive(n)) => Cancelled)
    /\ [](prog = ProgDefinitionSite =>
            /\ status # "done"
            /\ status = "failed" => raised = NanakoError("UnknownVariable"))

C2_Witness ==
    /\ Finished(ProgRecursive(MaxCount))
    /\ Bound("y", IntV((MaxCount * (MaxCount + 1)) \div 2))

\* C3: Return throws its value; the signal passes the loops, conditionals and
\* blocks of the body and lands at the nearest pending function call, which
\* yields the value; a body that runs to its end yields null.
C3_ReturnSignal ==
    /\ [][/\ Running("return") /\ Stepped /\ PendingCalls(below) # {} =>
                LET h == Nearest(PendingCalls(below)) IN
                /\ status' = "running"
                /\ kont' = DropN(below, h)
                /\ vals'[1] = vals[1]
                /\ Len(vals') = below[h].vd + 1
          /\ Running("callret") /\ Stepped =>
                kont' = below /\ vals' = <<NullV>> \o vals]_vars
    /\ [](\A n \in 0..MaxCount :
            /\ Finished(ProgReturn(n)) =>
                  /\ Bound("y", IF n <= 1 THEN IntV(1) ELSE IntV(0 - 1))
                  /\ Bound("z", NullV)
            /\ Failed(ProgReturn(n)) => Cancelled)

C3_Witness ==
    /\ Finished(ProgReturn(0))
    /\ Bound("y", IntV(1))
    /\ Bound("z", NullV)

\* C4: a Break ends the nearest pending loop of the same function body: between
\* the Break and the loop it ends there is no function call boundary, and the
\* evaluation goes on right after that loop.
C4_BreakStaysInBody ==
    [][Executing("Break") /\ Stepped /\ PendingLoops(below) # {} =>
          LET h == Nearest(PendingLoops(below)) IN
          /\ \A j \in 1..h : below[j].op # "callret"
          /\ status' = "running"
          /\ kont' = DropN(below, h)]_vars

\* C5: Program.evaluate never ends by throwing the Return or the Break signal.
C5_NoRawSignal ==
    status = "failed" =>
        raised.cls \notin {"ReturnBreakException", "BreakBreakException"}

\* C6: the count of a counted loop is evaluated once, before the first
\* iteration; a loop that ends by itself has started its body exactly count
\* times, whatever the body did to the variables of the count expression.
C6_CountedLoop ==
    /\ [][/\ Running("for") /\ IsNumber(top.cnt) /\ kont' = below /\ status' = "running" =>
                top.i = top.cnt.n
          /\ \A i \in PendingLoops(kont) :
                (kont[i].op = "for" /\ Len(kont') >= Len(kont) - i + 1) =>
                    LET i2 == Len(kont') - (Len(kont) - i) IN
                    kont'[i2].op = "for" /\ kont'[i2].cnt = kont[i].cnt]_vars
    /\ [](\A n \in 0..MaxCount :
            /\ Finished(ProgCountedLoop(n)) =>
                  /\ Bound("c", IntV(n))
                  /\ Bound("x", IntV(2 * n))
                  /\ rt.incrementCount = 2 * n
            /\ Failed(ProgCountedLoop(n)) => Cancelled)

C6_Witness ==
    /\ Finished(ProgCountedLoop(MaxCount))
    /\ Bound("c", IntV(MaxCount))
    /\ Bound("x", IntV(2 * MaxCount))

\* C7: a loop whose count is a NanakoArray throws the loop-count error, and its
\* body is never evaluated.
C7_ArrayCountRejected ==
    [][Running("loop") /\ Stepped /\ IsNanakoArray(Head(vals)) =>
          status' = "failed" /\ raised' = NanakoError("LoopCountIsArray")]_vars

\* C8: a loop whose count is a negative number throws the loop-count error
\* before any iteration: the body is not evaluated, with the count or with
\* its absolute value.
C8_NegativeCountRejected ==
    /\ [][Running("loop") /\ Stepped /\ IsNumber(Head(vals)) /\ Head(vals).n < 0 =>
            status' = "failed" /\ raised' = NanakoError("NegativeLoopCount")]_vars
    /\ [](\A n \in 1..MaxCount :
            prog = ProgNegativeCount(n) =>
                /\ status # "done"
                /\ "c" \in DOMAIN envs[1] => envs[1]["c"] = IntV(0)
                /\ rt.incrementCount = 0
                /\ ~Bound("d", IntV(1))
                /\ status = "failed" /\ ~Cancelled =>
                      raised = NanakoError("NegativeLoopCount"))

C8_Witness ==
    /\ Failed(ProgNegativeCount(MaxCount))
    /\ raised = NanakoError("NegativeLoopCount")
    /\ Bound("x", IntV(0 - MaxCount))
    /\ Bound("c", IntV(0))

\* C9: the loop with a null count whose body neither breaks nor returns nor
\* fails never ends normally, and started with a positive budget it ends,
\* unless it is stopped by hand, with the timeout error once the clock has
\* passed the budget.
C9_InfiniteLoopTimesOut ==
    /\ [](prog = ProgInfiniteLoop => status # "done" /\ ~Bound("d", IntV(1)))
    /\ [](Failed(ProgInfiniteLoop) /\ raised = NanakoError("Timeout") =>
            rt.timeout > 0 /\ now - rt.startTime > rt.timeout * MsPerSec)
    /\ (status = "running" /\ prog = ProgInfiniteLoop /\ rt.timeout > 0)
          ~> (rt.shouldStop \/ (status = "failed" /\ raised = NanakoError("Timeout")))

C9_Witness ==
    /\ Failed(ProgInfiniteLoop)
    /\ raised = NanakoError("Timeout")
    /\ ~rt.shouldStop
    /\ Bound("y", IntV(0))

\* C10: the stop flag is looked at before every iteration of every loop and
\* nowhere else: with the flag set no iteration starts, the next iteration
\* boundary throws the manual-stop error, and the stop and timeout errors
\* come from an iteration boundary only.
AtIterationBoundary ==
    \/ Running("while")
    \/ Running("for") /\ loopCondition(top.i, top.cnt)

C10_CooperativeCancellation ==
    [][/\ (Running("while") \/ Running("for")) /\ Len(kont') = Len(kont) + 1 =>
             ~rt.shouldStop
       /\ AtIterationBoundary /\ rt.shouldStop /\ Stepped =>
             status' = "failed" /\ raised' = NanakoError("ManuallyStopped")
       /\ status = "running" /\ status' = "failed"
            /\ raised' \in {NanakoError("ManuallyStopped"), NanakoError("Timeout")} =>
             AtIterationBoundary]_vars

C10_Witness ==
    /\ Failed(ProgCountedLoop(MaxCount))
    /\ raised = NanakoError("ManuallyStopped")
    /\ Bound("c", IntV(1))

\* the write of evaluateWith that an Increment or a Decrement has pending
CountPending == Len(kont) >= 2 /\ kont[2].op \in {"incrementCount", "decrementCount"}

\* C11: on a number, Increment hands evaluateWith the value plus 1 and Decrement
\* the value minus 1; that write changes the one binding (bare name) or the one
\* element (indexed target) and nothing else; the statement then raises
\* incrementCount, respectively decrementCount, by exactly 1, and no other step
\* of an evaluation changes either counter; an Increment and then a Decrement of
\* the same target leave the value it had, for a bare name, an element xs[0] and
\* an element m[0][0].
\* (All of it holds for a bare name and for a target with one index; with two
\* indices the write of evaluateWith fails.)
C11_IncrementDecrement ==
    /\ [][/\ Running("increment") /\ Stepped /\ IsNumber(vals[1]) =>
                /\ vals'[1] = IntV(vals[1].n + 1)
                /\ envs' = envs /\ heap' = heap /\ rt' = rt
          /\ Running("decrement") /\ Stepped /\ IsNumber(vals[1]) =>
                /\ vals'[1] = IntV(vals[1].n - 1)
                /\ envs' = envs /\ heap' = heap /\ rt' = rt
          /\ Running("store") /\ Stepped /\ CountPending /\ top.var.idx = <<>> =>
                /\ envs'[top.env][top.var.name] = vals[1]
                /\ \A e \in 1..Len(envs) : \A n \in DOMAIN envs[e] :
                      e # top.env \/ n # top.var.name => envs'[e][n] = envs[e][n]
                /\ heap' = heap /\ rt' = rt
          /\ Running("windexed") /\ Stepped /\ CountPending /\ status' = "running" =>
                /\ heap'[vals[2].r].elements[vals[1].n + 1] = vals[3]
                /\ \A r \in 1..Len(heap) : \A i \in 1..Len(heap[r].elements) :
                      r # vals[2].r \/ i # vals[1].n + 1 =>
                          heap'[r].elements[i] = heap[r].elements[i]
                /\ Len(heap') = Len(heap)
                /\ Len(heap'[vals[2].r].elements) = Len(heap[vals[2].r].elements)
                /\ envs' = envs /\ rt' = rt
          /\ Running("incrementCount") /\ Stepped =>
                /\ rt'.incrementCount = rt.incrementCount + 1
                /\ rt'.decrementCount = rt.decrementCount
                /\ envs' = envs /\ heap' = heap
          /\ Running("decrementCount") /\ Stepped =>
                /\ rt'.decrementCount = rt.decrementCount + 1
                /\ rt'.incrementCount = rt.incrementCount
                /\ envs' = envs /\ heap' = heap
          /\ status = "running" /\ rt'.incrementCount # rt.incrementCount =>
                Running("incrementCount")
          /\ status = "running" /\ rt'.decrementCount # rt.decrementCount =>
                Running("decrementCount")]_vars
    /\ [](\A n \in 0..MaxCount :
            /\ Finished(ProgIncDec(n)) =>
                  /\ Bound("a", IntV(n + 1)) /\ Bound("b", IntV(n + 1))
                  /\ Bound("x", IntV(n)) /\ Bound("w", IntV(7))
                  /\ heap[envs[1]["xs"].r].elements = <<IntV(n), IntV(5)>>
                  /\ rt.incrementCount = 2 /\ rt.decrementCount = 2
            /\ Failed(ProgIncDec(n)) => Cancelled
            /\ Finished(ProgIncDecNested(n)) =>
                  /\ Bound("a", IntV(n + 1))
                  /\ heap[heap[envs[1]["m"].r].elements[1].r].elements = <<IntV(n), IntV(5)>>
                  /\ rt.incrementCount = 1 /\ rt.decrementCount = 1
            /\ Failed(ProgIncDecNested(n)) => Cancelled)

\* C12: when the value read from the target of an Increment or a Decrement is
\* not a number (a NanakoArray, null or a function), the statement throws the
\* NanakoError "not a number" in that very step, with no env, no array and no
\* counter changed; the evaluation fails with it and the next statement is not
\* executed.
C12_NotANumber ==
    /\ [][(Running("increment") \/ Running("decrement")) /\ Stepped
            /\ ~IsNumber(vals[1]) =>
                /\ status' = "failed"
                /\ raised' = NanakoError("NotANumber")
                /\ envs' = envs /\ heap' = heap /\ rt' = rt]_vars
    /\ [](\A e \in NonNumbers, t \in IncDecTargets, dec \in BOOLEAN :
            /\ ~Finished(ProgIncNonNumber(e, t, dec))
            /\ Failed(ProgIncNonNumber(e, t, dec)) /\ ~Cancelled =>
                  /\ raised = NanakoError("NotANumber")
                  /\ Bound("w", IntV(7))
                  /\ DOMAIN envs[1] = {"w", "x", "xs"}
                  /\ ~IsNumber(envs[1]["x"])
                  /\ Len(heap[envs[1]["xs"].r].elements) = 1
                  /\ ~IsNumber(heap[envs[1]["xs"].r].elements[1])
                  /\ e \notin {NullNode} \/ Bound("x", NullV)
                  /\ IsNanakoArray(envs[1]["x"]) =>
                        heap[envs[1]["x"].r].elements = <<IntV(1), IntV(1)>>
                  /\ rt.incrementCount = 0 /\ rt.decrementCount = 0)

C12_Witness ==
    /\ Failed(ProgIncNonNumber(NullNode, VariableNode("xs", <<NumberNode(0)>>), FALSE))
    /\ raised = NanakoError("NotANumber")
    /\ heap[1].elements = <<NullV>>
    /\ rt.incrementCount = 0

\* the relation a particle of an If selects, on integers
Relation(cmp, a, b) ==
    CASE cmp = "" -> a = b
      [] cmp = "ge" -> a >= b
      [] cmp = "le" -> a <= b
      [] cmp = "gt" -> a > b
      [] cmp \in {"lt", "lt2"} -> a < b
      [] cmp = "ne" -> a # b

\* C13: an If evaluates its left and its right operand and then, in one step on
\* two numbers, adds exactly 1 to compareCount and goes on with the then-block
\* when the relation of its particle holds, with the else-block when it does not
\* and there is one, and with the statement after the If otherwise; it changes
\* no env and no array itself, and no other step changes compareCount.
C13_If ==
    /\ [][/\ Executing("If") /\ Stepped =>
                /\ Len(kont') = Len(kont) + 2
                /\ kont'[1] = EvalFrame(top.s.l, top.env)
                /\ kont'[2] = EvalFrame(top.s.r, top.env)
                /\ kont'[3].op = "if"
                /\ rt' = rt
          /\ Running("if") /\ Stepped /\ IsNumber(vals[1]) /\ IsNumber(vals[2]) =>
                /\ rt'.compareCount = rt.compareCount + 1
                /\ kont' = IF Relation(top.s.cmp, vals[2].n, vals[1].n)
                           THEN <<BlockFrame(top.s.thenB, top.env)>> \o below
                           ELSE IF top.s.hasElse
                           THEN <<BlockFrame(top.s.elseB, top.env)>> \o below
                           ELSE below
                /\ envs' = envs /\ heap' = heap
          /\ status = "running" /\ rt'.compareCount # rt.compareCount =>
                Running("if")]_vars
    /\ [](\A a \in 0..MaxCount, cmp \in Operators, hasElse \in BOOLEAN :
            /\ Finished(ProgIf(a, cmp, hasElse)) =>
                  /\ Bound("y", IntV(IF Relation(cmp, a, 1) THEN 1
                                     ELSE IF hasElse THEN 2 ELSE 0))
                  /\ Bound("x", IntV(a))
                  /\ rt.compareCount = 1
            /\ Failed(ProgIf(a, cmp, hasElse)) => Cancelled)

C13_Witness ==
    /\ Finished(ProgIf(1, "lt2", TRUE))
    /\ Bound("y", IntV(2))
    /\ rt.compareCount = 1

\* C14: a read through an index chain, at each index that is a number: when the
\* index is in 0 .. length - 1 of the array it is applied to, the read goes on
\* with that element (and ends with the addressed element); when it is not, the
\* read throws the index error whose message names the range 0 .. length - 1 and
\* the index; no env and no array is changed. On [10, 20, 30] the indices 3 and
\* 5 and the negative ones fail naming 0 .. 2; on [3, 4] index 2 fails naming 0 .. 1.
C14_IndexRead ==
    /\ [][Running("indexed") /\ Stepped /\ IsNumber(vals[1]) =>
            LET elements == heap[vals[2].r].elements IN
            /\ (0 <= vals[1].n /\ vals[1].n < Len(elements)) =>
                  /\ status' = "running"
                  /\ vals'[1] = elements[vals[1].n + 1]
            /\ ~(0 <= vals[1].n /\ vals[1].n < Len(elements)) =>
                  /\ status' = "failed"
                  /\ raised'.cls = "NanakoError" /\ raised'.msg = "IndexOutOfRange"
                  /\ raised'.from = 0 /\ raised'.to = Len(elements) - 1
                  /\ raised'.index = vals[1]
            /\ envs' = envs /\ heap' = heap]_vars
    /\ [](\A i \in 0..(MaxCount + 3) :
            LET p == ProgIndexRead(i) IN
            /\ i <= 1 => /\ Finished(p) =>
                              /\ Bound("y", IntV(10 * (i + 1)))
                              /\ Bound("z", IntV(3 + i))
                         /\ Failed(p) => Cancelled
            /\ i = 2 => /\ ~Finished(p)
                        /\ Failed(p) /\ ~Cancelled =>
                              /\ raised = IndexRangeError(2, IntV(2))
                              /\ Bound("y", IntV(30))
                              /\ "z" \notin DOMAIN envs[1]
            /\ i >= 3 => /\ ~Finished(p)
                         /\ Failed(p) /\ ~Cancelled =>
                              /\ raised = IndexRangeError(3, IntV(i))
                              /\ raised.to = 2
                              /\ "y" \notin DOMAIN envs[1])
    /\ [](\A i \in 1..MaxCount :
            LET p == ProgIndexReadNegative(i) IN
            /\ ~Finished(p)
            /\ Failed(p) /\ ~Cancelled =>
                  /\ raised = IndexRangeError(3, IntV(0 - i))
                  /\ "y" \notin DOMAIN envs[1])

C14_Witness ==
    /\ Failed(ProgIndexRead(5))
    /\ raised.cls = "NanakoError" /\ raised.msg = "IndexOutOfRange"
    /\ raised.from = 0 /\ raised.to = 2 /\ raised.index = IntV(5)

\* C15: an indexed assignment, at an index that is not null and is not a number
\* in 0 .. length - 1 of the array it is applied to, fails with the index error
\* that names the range 0 .. length - 1, and changes no array and no env.
\* (The code leaves the arrays and the envs as they were, but what it throws is
\* the host's ReferenceError.)
C15_IndexWriteError ==
    [][Running("windexed") /\ Stepped /\ vals[1] # NullV
         /\ ~indexInRange(vals[1], Len(heap[vals[2].r].elements)) =>
            /\ status' = "failed"
            /\ raised'.cls = "NanakoError"
            /\ raised'.msg = "IndexOutOfRange"
            /\ raised'.from = 0
            /\ raised'.to = Len(heap[vals[2].r].elements) - 1
            /\ heap' = heap /\ envs' = envs]_vars

\* heap after the push of v on the array at r: v is the new last element of
\* that array and every other element of every array is where it was
Pushed(r, v) ==
    /\ Len(heap') = Len(heap)
    /\ heap'[r].elements = Append(heap[r].elements, v)
    /\ \A q \in 1..Len(heap) : q # r => heap'[q] = heap[q]

\* C16: the append statement, and the assignment whose last index is null, push
\* the value on the addressed array (the array named, or the element the
\* indices before the null address): it is the new last element, the elements
\* before it are unchanged, the length is 1 more and a later length expression
\* yields it; the append statement on a target that is not an array throws the
\* NanakoError "not an array?" and changes nothing.
\* (The append statement does all of it; the assignment does it for xs[?] = v
\* and fails for m[0][?] = v.)
C16_Append ==
    /\ [][/\ Running("appendPush") /\ Stepped =>
                Pushed(vals[2].r, vals[1]) /\ envs' = envs
          /\ Running("windexed") /\ Stepped /\ vals[1] = NullV
                /\ top.i = Len(top.var.idx) =>
                Pushed(vals[2].r, vals[3]) /\ envs' = envs
          /\ Running("appendCheck") /\ Stepped /\ ~IsNanakoArray(vals[1]) =>
                /\ status' = "failed"
                /\ raised' = NanakoError("NotAnArrayQ")
                /\ envs' = envs /\ heap' = heap /\ rt' = rt]_vars
    /\ [](\A stmt \in BOOLEAN, v \in 0..MaxCount :
            /\ Finished(ProgAppend(stmt, v)) =>
                  /\ heap[envs[1]["xs"].r].elements = <<IntV(1), IntV(2), IntV(3), IntV(v)>>
                  /\ Bound("y", IntV(4))
            /\ Failed(ProgAppend(stmt, v)) => Cancelled
            /\ Finished(ProgAppendNested(stmt, v)) =>
                  /\ heap[heap[envs[1]["m"].r].elements[1].r].elements
                        = <<IntV(1), IntV(2), IntV(v)>>
                  /\ Len(heap[envs[1]["m"].r].elements) = 1
                  /\ Bound("y", IntV(3))
            /\ Failed(ProgAppendNested(stmt, v)) => Cancelled)
    /\ [](\A e \in NonArrays :
            /\ ~Finished(ProgAppendNonArray(e))
            /\ Failed(ProgAppendNonArray(e)) /\ ~Cancelled =>
                  raised = NanakoError("NotAnArrayQ") /\ DOMAIN envs[1] = {"x"})

\* C17: a read whose index is null, on an array that is not empty, does not
\* fail: it goes on with one of the elements of that array.
\* (The code throws the index error for it.)
C17_NullIndexRead ==
    /\ [][Running("indexed") /\ Stepped /\ vals[1] = NullV
            /\ heap[vals[2].r].elements # <<>> =>
                /\ status' = "running"
                /\ vals'[1] \in Range(heap[vals[2].r].elements)]_vars
    /\ [](Finished(ProgNullIndexRead) =>
            envs[1]["y"] \in {IntV(10), IntV(20), IntV(30)})
    /\ [](Failed(ProgNullIndexRead) => Cancelled)

\* structural/value equality of two values: arrays by NanakoArray.equals
ValueEquals(h, v, w) ==
    IF IsNanakoArray(v) /\ IsNanakoArray(w) THEN equals(h, v.r, w.r) ELSE v = w

\* C18: a doctest evaluates its expression and its answer and compares the two
\* values by structural/value equality: when they are equal, two arrays with
\* the same elements in the same order included, the evaluation goes on with
\* the next statement; when they differ it fails with the test-failure error
\* that shows the value of the expression; no env and no array is changed
\* either way.
\* (The code compares with !==: equal numbers pass and different values fail as
\* stated, but two equal arrays that are not the same object fail.)
C18_DocTest ==
    /\ [][/\ Executing("Test") /\ Stepped =>
                /\ kont'[1] = EvalFrame(top.s.e, top.env)
                /\ kont'[2] = EvalFrame(top.s.answer, top.env)
          /\ Running("test") /\ Stepped =>
                /\ IF ValueEquals(heap, vals[2], vals[1])
                   THEN status' = "running" /\ kont' = below
                   ELSE /\ status' = "failed"
                        /\ raised' = TestFailed(valueText(heap, vals[2]))
                /\ envs' = envs /\ heap' = heap]_vars
    /\ [](\A a, b \in 0..MaxCount :
            /\ a = b => (Failed(ProgDocTest(a, b)) => Cancelled)
            /\ a # b => /\ ~Finished(ProgDocTest(a, b))
                        /\ Failed(ProgDocTest(a, b)) /\ ~Cancelled =>
                              raised = TestFailed(IntV(a)) /\ DOMAIN envs[1] = {"x"})
    /\ [](Failed(ProgDocTestSame) => Cancelled)
    /\ [](\A b \in 1..MaxCount :
            /\ b = 2 => (Failed(ProgDocTestArray(b)) => Cancelled)
            /\ b # 2 => ~Finished(ProgDocTestArray(b)))

\* C19: whatever makes an evaluation fail, the error it fails with carries the
\* details (message, line, column, text of the line). The control signals of
\* Return and Break are set aside here: they are no errors.
\* (Every NanakoError is constructed with details; the call of a name bound to
\* a value that is no function and the failing indexed write end in an
\* exception of the host, which has none.)
C19_ErrorPayload ==
    /\ [](status = "failed"
            /\ raised.cls \notin {"ReturnBreakException", "BreakBreakException"} =>
                hasDetails(raised))
    /\ [](\A e \in NonFunctions : ~Finished(ProgCallNonFunction(e)))

\* the evaluation was ended by the stop flag or by the timeout
CancelledOutcome(o) ==
    o.status = "failed"
        /\ o.raised \in {NanakoError("ManuallyStopped"), NanakoError("Timeout")}

\* C20: when a second evaluation of the same ProgramNode, from an empty env
\* and with a newly started runtime, has ended, and neither evaluation was
\* cancelled and the program reads through no null index, it has ended as the
\* first one did: the same env contents, the same printed values, the same
\* exception or none.
\* (A program that changes the array of a string literal finds the changed
\* array in the second evaluation.)
C20_Deterministic ==
    /\ first # NoOutcome
    /\ status \in {"done", "failed"}
    /\ ~CancelledOutcome(first) /\ ~CancelledOutcome(Outcome)
    /\ prog # ProgNullIndexRead
    => Outcome = first

\* C21: an emission of the program to the dialect and with the base indent of
\* the emission before it returns the text that emission returned, whether or
\* not the program was evaluated in between, and an emission changes nothing
\* of the program, the envs, the arrays and the runtime.
C21_EmitIdempotent ==
    [][emitted' # emitted =>
        /\ UNCHANGED <<status, raised, prog, kont, vals, envs, heap, rt, now, out, first, code>>
        /\ (emitted.lang # "none" /\ emitted'.lang = emitted.lang
                /\ emitted'.indent = emitted.indent => emitted'.text = emitted.text)]_vars

\* the lines of an emitted text
RECURSIVE Lines(_)
Lines(text) ==
    IF \A i \in 1..Len(text) : SubSeq(text, i, i) # "\n" THEN <<text>>
    ELSE LET i == CHOOSE k \in 1..Len(text) :
                    SubSeq(text, k, k) = "\n" /\ \A j \in 1..(k - 1) : SubSeq(text, j, j) # "\n"
         IN <<SubSeq(text, 1, i - 1)>> \o Lines(SubSeq(text, i + 1, Len(text)))

\* the number of blanks a line starts with, after the base indent
RECURSIVE LeadingBlanks(_)
LeadingBlanks(line) ==
    IF line # "" /\ SubSeq(line, 1, 1) = " "
    THEN 1 + LeadingBlanks(SubSeq(line, 2, Len(line))) ELSE 0

Indentation(base, line) == LeadingBlanks(SubSeq(line, Len(base) + 1, Len(line)))

\* the line holds the word pass and nothing else
IsPassLine(base, line) == trim(SubSeq(line, Len(base) + 1, Len(line))) = "pass"

\* C27: in a text emitted to py, a line that holds only pass (the empty block
\* of an if, an else, a loop or a function) is indented four blanks deeper than
\* the line before it, which is the header of that block.
C27_PassIndent ==
    emitted.lang # "none" /\ emitted.lang = "py" =>
        LET lines == Lines(emitted.text)
        IN \A i \in 2..Len(lines) :
              IsPassLine(emitted.indent, lines[i]) =>
                  Indentation(emitted.indent, lines[i])
                      = Indentation(emitted.indent, lines[i - 1]) + 4

\* the call about to be evaluated names no binding of its env, or a function
\* with another number of parameters than the call has arguments
CallCannotBeMade ==
    /\ Evaluating("FuncCall")
    /\ \/ top.e.name \notin DOMAIN envs[top.env]
       \/ /\ IsFunction(envs[top.env][top.e.name])
          /\ Len(envs[top.env][top.e.name].params) # Len(top.e.args)

\* C25: the step of a call whose callee is not bound, or has another number of
\* parameters than the call has arguments, ends the evaluation with a
\* NanakoError and leaves the envs, the arrays, the counters and call frames of
\* the runtime, the value stack and the output as they were: no argument was
\* evaluated, no call frame pushed.
C25_FailedCall ==
    [][Stepped /\ CallCannotBeMade =>
        /\ status' = "failed"
        /\ raised' = IF top.e.name \notin DOMAIN envs[top.env]
                      THEN NanakoError("FunctionNotFound")
                      ELSE NanakoError("ArgumentCountMismatch")
        /\ UNCHANGED <<envs, heap, rt, vals, out>>]_vars

\* a call with a wrong number of arguments, made inside a function, has failed
\* with the array xs of its argument p(xs) still of length 1
C25_Witness ==
    /\ \E call \in BadCalls : prog = ProgBadCall(call, TRUE)
    /\ status = "failed"
    /\ raised = NanakoError("ArgumentCountMismatch")
    /\ Len(rt.callFrames) = 1
    /\ Len(heap[envs[1]["xs"].r].elements) = 1

\* every element of every array with isStringView is a number that is a
\* character code
ElementsAreCodes ==
    \A r \in DOMAIN heap :
        heap[r].isStringView =>
            \A i \in DOMAIN heap[r].elements :
                IsNumber(heap[r].elements[i]) /\ heap[r].elements[i].n >= 0

\* an array keeps its isStringView
FlagKept ==
    \A r \in DOMAIN heap :
        r \in DOMAIN heap' /\ heap'[r].isStringView = heap[r].isStringView

\* C26: every step (a literal evaluation, an element assignment, an append,
\* an increment, a decrement, ..) leaves every element of every array with
\* isStringView an integer character code, as it is when the arrays of the
\* literals are built, and changes the isStringView of no array.
C26_StringView == [][FlagKept /\ ElementsAreCodes']_vars

\* C28: the evaluation of a string literal yields an array that holds the
\* character codes written in the literal, whatever was done to the arrays
\* that earlier evaluations of the literal yielded (in an earlier iteration of
\* a loop, an earlier call of the function, an earlier evaluation of the
\* program).
C28_LiteralIndependent ==
    [][Stepped /\ Evaluating("String") =>
        /\ IsNanakoArray(vals'[1])
        /\ heap'[vals'[1].r] = NanakoArrayOfString(top.e.content)]_vars

\* the evaluation is about to take the next statement of the program or of a
\* block, or to test the condition of a loop
AtStatementBoundary ==
    status = "running" /\ kont # <<>> /\ top.op \in {"program", "block", "for", "while"}

\* C29: when a running evaluation is at a statement boundary or at an iteration
\* boundary of a loop, runtime.callFrames holds as many frames as there are
\* function calls whose body is being evaluated, however the earlier calls
\* ended; at a statement of the top level it is empty.
C29_CallFrameDepth ==
    AtStatementBoundary => Len(rt.callFrames) = Cardinality(PendingCalls(kont))

\* the statement of a text that holds one statement, as parseStatement yields it
StatementOf(stmt) == parseStatement(stmt, 0).node
\* the parser has thrown its error for a text that is no statement
UnknownStatement ==
    status = "failed" /\ raised = NanakoError("UnknownStatement") /\ prog = <<>>

C23_JapaneseAssignment ==
    \A target \in Targets, form \in {"wo", "woBlanks", "woFullWidth"}, n \in 0..MaxCount :
        status # "new" /\ code = AssignmentSource(target, form, n) =>
            /\ ~UnknownStatement
            /\ prog = parseProgram(AssignmentSource(target, "eq", n)).node

\* the statements written in stmts, each as parseStatement yields it alone
StatementsOf(stmts) == [i \in 1..Len(stmts) |-> StatementOf(stmts[i])]

\* the node of a header with the statements of its block
HeaderNode(header, block) ==
    IF header = "loop" THEN LoopNode(NumberNode(1), block)
    ELSE IfNode(Var("x"), "", NumberNode(0), block, FALSE, <<>>)

\* C30: the block of a parsed loop or if holds the statements written between
\* its braces, in their order, in every layout: closed on the line of the
\* opening brace, closed on a later line with the first statement on a line of
\* its own, and closed on a later line with the first statement on the line of
\* the opening brace.
C30_BlockStatements ==
    \A c \in BlockCases :
        /\ \A i \in 1..Len(c.stmts) : c.stmts[i] \in WellFormed
        /\ status # "new" /\ code = BlockSource(c.header, c.layout, c.stmts)
        => prog = <<AssignmentNode(Var("x"), NumberNode(0)),
                    HeaderNode(c.header, StatementsOf(c.stmts)),
                    AssignmentNode(Var("d"), NumberNode(1))>>

\* C22: a text with a statement that is no statement of the grammar, at the
\* top level or in a block, before or after statements that are, is not
\* parsed: exec ends with the syntax error, no program is evaluated.
C22_FailFast ==
    /\ \A c \in BlockCases :
          /\ \E i \in 1..Len(c.stmts) : c.stmts[i] \in Malformed
          /\ status # "new" /\ code = BlockSource(c.header, c.layout, c.stmts)
          => UnknownStatement
    /\ \A stmts \in StatementLists :
          /\ \E i \in 1..Len(stmts) : stmts[i] \in Malformed
          /\ status # "new" /\ code = ProgramSource(stmts)
          => UnknownStatement

====
